---- MODULE Spec2Model ----
(***************************************************************************)
(* LegalSearchEngine (src/src/s5_LegalSearchEngine.py): the retrieval and  *)
(* ranking functions of the hybrid legal search engine, as a state machine *)
(* per function: the inputs of a call are drawn in the initial state, the  *)
(* action is the whole call.                                               *)
(*                                                                         *)
(* Numbers.  Python floats are modelled by exact integers: an RRF          *)
(* contribution 1 / (k + rank) is the integer Denom(k) / (k + rank), where *)
(* Denom(k) is a common multiple of every k + rank that can occur, so that *)
(* sums and comparisons are exact.  BM25 and cross-encoder scores are      *)
(* opaque values of the external libraries and are drawn from small        *)
(* integer ranges.                                                         *)
(*                                                                         *)
(* Text.  A Python string is a sequence of tokens; re.search(p, s,         *)
(* re.IGNORECASE) for the alternation patterns of the engine is "some      *)
(* token of s, lower-cased, is one of p's alternatives, lower-cased".      *)
(***************************************************************************)
EXTENDS Integers, Sequences, FiniteSets, Bags, TLC

VARIABLES
    pc,               \* position of the modelled call: "ready", then the name of the function that returned
    query,            \* the query text of the call (a sequence of tokens)
    top_k,            \* the top_k argument of the call
    k_rrf,            \* the k argument of reciprocal_rank_fusion
    vector_results,   \* reciprocal_rank_fusion's first argument
    keyword_results,  \* reciprocal_rank_fusion's second argument
    hybrid_results,   \* the list reciprocal_rank_fusion returned
    results,          \* the results argument of filter_by_doc_name
    filtered_results, \* the list filter_by_doc_name returned
    refiltered_results, \* the list filter_by_doc_name returned when given filtered_results
    metadata,         \* self.metadata, the corpus: the list of chunk records
    scores,           \* the scores of the last call of an external scorer (BM25, cross-encoder)
    final_results,    \* the list rerank returned
    error,            \* the exception the call raised, or "none"
    use_rerank,       \* hybrid_search's argument use_rerank
    use_bm25,         \* hybrid_search's argument use_bm25
    progress_callback, \* hybrid_search's argument progress_callback: "None" or "sink"
    events,           \* the messages the progress sink has received, in order
    indices,          \* indices[0] as faiss_index.search returned it (0-based, -1: no neighbour)
    distances,        \* distances[0] as faiss_index.search returned it
    predict_calls,    \* how often self.reranker.predict was called
    pairs,            \* the candidates of the pairs of the last call of self.reranker.predict
    flow,             \* the caller: "generate_answer", "test_search" or "app"
    response,         \* what the chat completion gave classify
    classification,   \* what classify returned: its query_type
    strategy,         \* what get_search_strategy returned, once it was called
    search_call,      \* the search the caller executed: function and arguments
    blob,             \* the file at bm25_index_path: whether it exists, what it pickles
    bm25_corpus,      \* self.bm25_corpus, the tokenized documents of the lexical index
    faiss_index,      \* self.faiss_index: the vector stored for each chunk
    calls,            \* the hybrid_search calls in progress on one engine: arguments, place, outcome
    locals            \* the local variables of each call's frame

hybrid_vars == <<use_rerank, use_bm25, progress_callback, events, indices, distances,
                 predict_calls, pairs>>

strategy_vars == <<flow, response, classification, strategy, search_call>>

engine_vars == <<blob, bm25_corpus>>

interleave_vars == <<faiss_index, calls, locals>>

vars == <<pc, query, top_k, k_rrf, vector_results, keyword_results, hybrid_results,
          results, filtered_results, refiltered_results, metadata, scores,
          final_results, error, hybrid_vars, strategy_vars, engine_vars, interleave_vars>>

\* the variables of hybrid_search, of a caller and of the engine's
\* construction while a specification does not use them
HybridIdle ==
    /\ use_rerank = FALSE
    /\ use_bm25 = FALSE
    /\ progress_callback = "None"
    /\ events = <<>>
    /\ indices = <<>>
    /\ distances = <<>>
    /\ predict_calls = 0
    /\ pairs = <<>>

\* no search was executed
NoCall == [function |-> "none"]

\* classify was not called
NoResponse == [kind |-> "none", query_type |-> "None"]

StrategyIdle ==
    /\ flow = "none"
    /\ response = NoResponse
    /\ classification = "none"
    /\ strategy = "none"
    /\ search_call = NoCall

EngineIdle ==
    /\ blob = [exists |-> FALSE, corpus |-> <<>>]
    /\ bm25_corpus = <<>>

\* no calls share an engine
InterleaveIdle ==
    /\ faiss_index = <<>>
    /\ calls = <<>>
    /\ locals = <<>>

(***************************************************************************)
(* Bounds of the model.                                                    *)
(***************************************************************************)
NChunks == 4      \* distinct chunk ids
MaxLen == 3       \* longest result list handed to a function
MaxQueryLen == 2  \* longest query, in tokens
MaxResults == 2   \* longest result list handed to filter_by_doc_name
MaxCorpus == 3    \* most chunks of a corpus
MaxTopK == 4      \* largest top_k
MaxScore == 2     \* largest score of an external scorer

(***************************************************************************)
(* Program constants.                                                      *)
(***************************************************************************)
K_RRF == 60       \* default of reciprocal_rank_fusion's k

ChunkIds == 1..NChunks

(***************************************************************************)
(* Generic helpers for Python lists.                                       *)
(***************************************************************************)
Min(a, b) == IF a <= b THEN a ELSE b

\* s[:n] for n >= 0
Take(s, n) == SubSeq(s, 1, Min(n, Len(s)))

\* the sequences over S, each element at most once, of length at most n
DistinctSeqs(S, n) ==
    {s \in UNION {[1..m -> S] : m \in 0..n} :
        \A i, j \in DOMAIN s : i # j => s[i] # s[j]}

\* s with x put after the leading elements whose key is >= key[x]
InsertDesc(s, x, key) ==
    LET p == Cardinality({i \in DOMAIN s : key[s[i]] >= key[x]})
    IN  SubSeq(s, 1, p) \o <<x>> \o SubSeq(s, p + 1, Len(s))

\* sorted(items, key = ..., reverse = True): Python's sort is stable, and
\* with reverse = True equal keys keep their original relative order
RECURSIVE SortedDesc(_, _)
SortedDesc(s, key) ==
    IF s = <<>> THEN <<>>
    ELSE InsertDesc(SortedDesc(SubSeq(s, 1, Len(s) - 1), key), s[Len(s)], key)

(***************************************************************************)
(* reciprocal_rank_fusion                                                  *)
(***************************************************************************)
RECURSIVE Prod(_, _, _)
Prod(k, lo, hi) == IF lo > hi THEN 1 ELSE (k + lo) * Prod(k, lo + 1, hi)

\* the common denominator of the contributions 1 / (k + rank), rank in 1..MaxLen
Denom(k) == Prod(k, 1, MaxLen)

\* rrf_score = 1 / (k + rank), in units of 1 / Denom(k)
RRFContribution(k, rank) == Denom(k) \div (k + rank)

\* the two dicts before the loops; order is the insertion order of chunk_scores
EmptyDicts == [order |-> <<>>, chunk_scores |-> <<>>, chunk_data |-> <<>>]

\* one iteration of the loop over vector_results
VectorStep(d, result, k) ==
    LET chunk_id == result.chunk_id
        rrf_score == RRFContribution(k, result.rank)
        seen == chunk_id \in DOMAIN d.chunk_scores
        old == IF seen THEN d.chunk_scores[chunk_id] ELSE 0
    IN  [order |-> IF seen THEN d.order ELSE Append(d.order, chunk_id),
         chunk_scores |-> (chunk_id :> (old + rrf_score)) @@ d.chunk_scores,
         chunk_data |-> (chunk_id :> result) @@ d.chunk_data]

KeywordStepJoin(d, result, k) ==
    LET chunk_id == result.chunk_id
        rrf_score == RRFContribution(k, result.rank)
    IN  IF chunk_id \in DOMAIN d.chunk_scores
        THEN [d EXCEPT !.chunk_scores[chunk_id] = @ + rrf_score]
        ELSE d

KeywordStepNoAccumulate(d, result, k) ==
    LET chunk_id == result.chunk_id
        rrf_score == RRFContribution(k, result.rank)
        seen == chunk_id \in DOMAIN d.chunk_scores
    IN  [order |-> IF seen THEN d.order ELSE Append(d.order, chunk_id),
         chunk_scores |-> (chunk_id :> rrf_score) @@ d.chunk_scores,
         chunk_data |-> IF chunk_id \in DOMAIN d.chunk_data
                        THEN d.chunk_data
                        ELSE (chunk_id :> result) @@ d.chunk_data]

KeywordStepOverwrite(d, result, k) ==
    LET chunk_id == result.chunk_id
        rrf_score == RRFContribution(k, result.rank)
        seen == chunk_id \in DOMAIN d.chunk_scores
        old == IF seen THEN d.chunk_scores[chunk_id] ELSE 0
    IN  [order |-> IF seen THEN d.order ELSE Append(d.order, chunk_id),
         chunk_scores |-> (chunk_id :> (old + rrf_score)) @@ d.chunk_scores,
         chunk_data |-> (chunk_id :> result) @@ d.chunk_data]

\* one iteration of the loop over keyword_results
KeywordStep(d, result, k) ==
    LET chunk_id == result.chunk_id
        rrf_score == RRFContribution(k, result.rank)
        seen == chunk_id \in DOMAIN d.chunk_scores
        old == IF seen THEN d.chunk_scores[chunk_id] ELSE 0
    IN  [order |-> IF seen THEN d.order ELSE Append(d.order, chunk_id),
         chunk_scores |-> (chunk_id :> (old + rrf_score)) @@ d.chunk_scores,
         chunk_data |-> IF chunk_id \in DOMAIN d.chunk_data
                        THEN d.chunk_data
                        ELSE (chunk_id :> result) @@ d.chunk_data]

RECURSIVE VectorLoop(_, _, _)
VectorLoop(d, rs, k) ==
    IF rs = <<>> THEN d
    ELSE VectorLoop(VectorStep(d, Head(rs), k), Tail(rs), k)

RECURSIVE KeywordLoop(_, _, _)
KeywordLoop(d, rs, k) ==
    IF rs = <<>> THEN d
    ELSE KeywordLoop(KeywordStep(d, Head(rs), k), Tail(rs), k)

SortedChunksUnsorted(d) == d.order

SortedChunksTiesReversed(d) ==
    SortedDesc([i \in DOMAIN d.order |-> d.order[Len(d.order) + 1 - i]], d.chunk_scores)

\* sorted(chunk_scores.items(), key = lambda x: x[1], reverse = True), as chunk ids
SortedChunks(d) == SortedDesc(d.order, d.chunk_scores)

\* result = chunk_data[chunk_id].copy() with rank, rrf_score, search_type set
FusedEntry(d, chunk_id, i) ==
    LET copy == d.chunk_data[chunk_id]
    IN  [f \in DOMAIN copy \cup {"rank", "rrf_score", "search_type"} |->
            IF f = "rank" THEN i
            ELSE IF f = "rrf_score" THEN d.chunk_scores[chunk_id]
            ELSE IF f = "search_type" THEN "hybrid"
            ELSE copy[f]]

reciprocal_rank_fusion(vr, kr, k) ==
    LET d == KeywordLoop(VectorLoop(EmptyDicts, vr, k), kr, k)
        sorted_chunks == SortedChunks(d)
    IN  [i \in 1..Len(sorted_chunks) |-> FusedEntry(d, sorted_chunks[i], i)]

(***************************************************************************)
(* The inputs of reciprocal_rank_fusion: ranked lists as vector_search and *)
(* keyword_search build them (rank = position, 1-based), each chunk at     *)
(* most once per list.  content, metadata and score are payload the fusion *)
(* never reads; each entry carries the list it comes from in them, so that *)
(* the entry a fused result was copied from can be told.                   *)
(***************************************************************************)
InputEntry(type, chunk_id, i) ==
    [rank |-> i,
     chunk_id |-> chunk_id,
     content |-> <<type, "content", chunk_id>>,
     metadata |-> [doc_name |-> <<type, "doc", chunk_id>>],
     score |-> <<type, "score", i>>,
     search_type |-> type]

RankedLists(type) ==
    {[i \in DOMAIN s |-> InputEntry(type, s[i], i)] : s \in DistinctSeqs(ChunkIds, MaxLen)}

KValues == {1, K_RRF}

InitFusion ==
    /\ pc = "ready"
    /\ query = <<>>
    /\ top_k = 0
    /\ k_rrf \in KValues
    /\ vector_results \in RankedLists("vector")
    /\ keyword_results \in RankedLists("keyword")
    /\ hybrid_results = <<>>
    /\ results = <<>>
    /\ filtered_results = <<>>
    /\ refiltered_results = <<>>
    /\ metadata = <<>>
    /\ scores = <<>>
    /\ final_results = <<>>
    /\ error = "none"
    /\ HybridIdle
    /\ StrategyIdle
    /\ EngineIdle
    /\ InterleaveIdle

Fuse ==
    /\ pc = "ready"
    /\ hybrid_results' = reciprocal_rank_fusion(vector_results, keyword_results, k_rrf)
    /\ pc' = "reciprocal_rank_fusion"
    /\ UNCHANGED <<query, top_k, k_rrf, vector_results, keyword_results,
                   results, filtered_results, refiltered_results,
                   metadata, scores, final_results, error>>
    /\ UNCHANGED <<hybrid_vars, strategy_vars, engine_vars, interleave_vars>>

\* a second call with the lists the first call was given, as it left them
FuseAgain ==
    /\ pc = "reciprocal_rank_fusion"
    /\ results' = reciprocal_rank_fusion(vector_results, keyword_results, k_rrf)
    /\ pc' = "reciprocal_rank_fusion again"
    /\ UNCHANGED <<query, top_k, k_rrf, vector_results, keyword_results,
                   hybrid_results, filtered_results, refiltered_results,
                   metadata, scores, final_results, error>>
    /\ UNCHANGED <<hybrid_vars, strategy_vars, engine_vars, interleave_vars>>

NextFusion ==
    \/ Fuse
    \/ FuseAgain

SpecFusion == InitFusion /\ [][NextFusion]_vars

(***************************************************************************)
(* filter_by_doc_name                                                      *)
(***************************************************************************)
\* Tokens.  The Korean words of the source are written in Latin letters:
\*   sihaenggyuchik (enforcement regulation), sihaengnyeong (enforcement
\*   decree), haeseongnye (interpretation case), geonseolsaneopgibonbeop
\*   (framework act on the construction industry), geonseolgisul
\*   (construction technology), saneobanjeon (industrial safety), gukto
\*   (national land), geonchukbeop (building act), geonpyeyul (building
\*   coverage ratio); "AURI" is the Latin-letter word of the source.

\* str.lower() of a token, as re.IGNORECASE compares
Lower(t) == IF t \in {"AURI", "Auri"} THEN "auri" ELSE t

LowerIdentity(t) == t

\* re.search(pattern, text, re.IGNORECASE) is not None; a pattern is the set
\* of its alternatives a|b|...
Search(pattern, text) ==
    \E i \in DOMAIN text : \E a \in pattern : Lower(text[i]) = Lower(a)

doc_mappingDecreeFirst ==
    << [query_pattern |-> {"sihaengnyeong"},         doc_pattern |-> {"sihaengnyeong"}],
       [query_pattern |-> {"sihaenggyuchik"},       doc_pattern |-> {"sihaenggyuchik"}],
       [query_pattern |-> {"AURI", "haeseongnye"}, doc_pattern |-> {"AURI", "haeseongnye"}],
       [query_pattern |-> {"geonseolsaneopgibonbeop"}, doc_pattern |-> {"geonseolsaneopgibonbeop"}],
       [query_pattern |-> {"geonseolgisul"},       doc_pattern |-> {"geonseolgisul"}],
       [query_pattern |-> {"saneobanjeon"},       doc_pattern |-> {"saneobanjeon"}],
       [query_pattern |-> {"gukto"},           doc_pattern |-> {"gukto"}] >>

\* the list of (query pattern, doc_name pattern) pairs, in the code's order
doc_mapping ==
    << [query_pattern |-> {"sihaenggyuchik"},       doc_pattern |-> {"sihaenggyuchik"}],
       [query_pattern |-> {"sihaengnyeong"},         doc_pattern |-> {"sihaengnyeong"}],
       [query_pattern |-> {"AURI", "haeseongnye"}, doc_pattern |-> {"AURI", "haeseongnye"}],
       [query_pattern |-> {"geonseolsaneopgibonbeop"}, doc_pattern |-> {"geonseolsaneopgibonbeop"}],
       [query_pattern |-> {"geonseolgisul"},       doc_pattern |-> {"geonseolgisul"}],
       [query_pattern |-> {"saneobanjeon"},       doc_pattern |-> {"saneobanjeon"}],
       [query_pattern |-> {"gukto"},           doc_pattern |-> {"gukto"}] >>

\* None, the value of target_pattern and exclude_pattern when unset
None == {}

\* the loop over doc_mapping from its i-th pair on: the doc_name pattern of
\* the first pair whose query pattern is found in the query, or None
RECURSIVE FindTarget(_, _)
FindTarget(q, i) ==
    IF i > Len(doc_mapping) THEN None
    ELSE IF Search(doc_mapping[i].query_pattern, q) THEN doc_mapping[i].doc_pattern
    ELSE FindTarget(q, i + 1)

\* target_pattern and exclude_pattern after the default is applied
Patterns(q) ==
    LET found == FindTarget(q, 1)
    IN  IF found = None
        THEN [target_pattern |-> {"geonchukbeop"}, exclude_pattern |-> {"sihaengnyeong", "sihaenggyuchik"}]
        ELSE [target_pattern |-> found, exclude_pattern |-> None]

\* r.get('metadata', {}).get('doc_name', '')
DocName(r) ==
    IF "metadata" \in DOMAIN r /\ "doc_name" \in DOMAIN r.metadata
    THEN r.metadata.doc_name
    ELSE <<>>

KeepsIgnoringExclusion(r, pat) == Search(pat.target_pattern, DocName(r))

\* the body of the filter loop: whether r is appended to filtered
Keeps(r, pat) ==
    /\ Search(pat.target_pattern, DocName(r))
    /\ ~ (pat.exclude_pattern # None /\ Search(pat.exclude_pattern, DocName(r)))

FilterResultStrict(filtered, rs) == filtered

\* return filtered if filtered else results
FilterResult(filtered, rs) == IF filtered # <<>> THEN filtered ELSE rs

RECURSIVE FilteredPrepending(_, _)
FilteredPrepending(rs, pat) ==
    IF rs = <<>> THEN <<>>
    ELSE FilteredPrepending(Tail(rs), pat)
         \o (IF Keeps(Head(rs), pat) THEN <<Head(rs)>> ELSE <<>>)

\* the filter loop: filtered, the results the loop appends, in order
Filtered(rs, pat) == SelectSeq(rs, LAMBDA r : Keeps(r, pat))

filter_by_doc_name(rs, q) ==
    LET pat == Patterns(q)
        filtered == Filtered(rs, pat)
    IN  FilterResult(filtered, rs)

(***************************************************************************)
(* The inputs of filter_by_doc_name: a query over the keywords of the      *)
(* rules (AURI in lower case) and a word no rule looks for, and a list of  *)
(* results whose doc_name is a base act, a decree or regulation of it,     *)
(* another law, an interpretation case (Auri), or is missing.              *)
(***************************************************************************)
QueryTokens ==
    {"sihaenggyuchik", "sihaengnyeong", "auri", "haeseongnye", "geonseolsaneopgibonbeop", "geonseolgisul",
     "saneobanjeon", "gukto", "geonpyeyul"}

Queries == UNION {[1..m -> QueryTokens] : m \in 0..MaxQueryLen}

DocMetadata ==
    { [doc_name |-> <<"geonchukbeop">>],
      [doc_name |-> <<"geonchukbeop", "sihaengnyeong">>],
      [doc_name |-> <<"geonchukbeop", "sihaenggyuchik">>],
      [doc_name |-> <<"geonseolsaneopgibonbeop">>],
      [doc_name |-> <<"geonseolgisul", "jinheungbeop">>],
      [doc_name |-> <<"saneobanjeon", "bogeonbeop">>],
      [doc_name |-> <<"gukto", "gyehoekbeop">>],
      [doc_name |-> <<"Auri", "haeseongnye">>],
      [page |-> 1] }

FilterInputs ==
    {[i \in DOMAIN ms |->
        [rank |-> i, chunk_id |-> i, content |-> i, metadata |-> ms[i],
         score |-> 0 - i, search_type |-> "vector"]] :
     ms \in UNION {[1..m -> DocMetadata] : m \in 0..MaxResults}}

InitFilter ==
    /\ pc = "ready"
    /\ query \in Queries
    /\ top_k = 0
    /\ k_rrf = K_RRF
    /\ vector_results = <<>>
    /\ keyword_results = <<>>
    /\ hybrid_results = <<>>
    /\ results = <<>>
    /\ filtered_results = <<>>
    /\ refiltered_results = <<>>
    /\ metadata = <<>>
    /\ scores = <<>>
    /\ final_results = <<>>
    /\ error = "none"
    /\ HybridIdle
    /\ StrategyIdle
    /\ EngineIdle
    /\ InterleaveIdle

\* filter_by_doc_name(results, query), for any list of results
Filter ==
    /\ pc = "ready"
    /\ \E rs \in FilterInputs :
        /\ results' = rs
        /\ filtered_results' = filter_by_doc_name(rs, query)
    /\ pc' = "filter_by_doc_name"
    /\ UNCHANGED <<query, top_k, k_rrf, vector_results, keyword_results,
                   hybrid_results, refiltered_results,
                   metadata, scores, final_results, error>>
    /\ UNCHANGED <<hybrid_vars, strategy_vars, engine_vars, interleave_vars>>

\* filter_by_doc_name(filtered_results, query): the list that was returned is
\* filtered again, with the same query
FilterAgain ==
    /\ pc = "filter_by_doc_name"
    /\ refiltered_results' = filter_by_doc_name(filtered_results, query)
    /\ pc' = "filter_by_doc_name again"
    /\ UNCHANGED <<query, top_k, k_rrf, vector_results, keyword_results,
                   hybrid_results, results, filtered_results,
                   metadata, scores, final_results, error>>
    /\ UNCHANGED <<hybrid_vars, strategy_vars, engine_vars, interleave_vars>>

NextFilter == Filter \/ FilterAgain

SpecFilter == InitFilter /\ [][NextFilter]_vars

(***************************************************************************)
(* keyword_search                                                          *)
(***************************************************************************)
\* the corpus of n chunks: self.metadata
Corpus(n) ==
    [i \in 1..n |->
        [chunk_id |-> i,
         content |-> <<"content", i>>,
         metadata |-> [doc_name |-> <<"doc", i>>, page |-> i]]]

\* the values of a score of the BM25 index or of the cross-encoder: floats,
\* negative, zero or positive
ScoreValues == (0 - 1)..MaxScore

\* np.argsort(scores)[::-1]: the indices (1-based here) by non-increasing
\* score; the order of indices of equal score is whatever the unstable sort
\* leaves, so every such order is possible
RankedIndices(sc) ==
    {p \in [DOMAIN sc -> DOMAIN sc] :
        /\ \A i, j \in DOMAIN sc : i # j => p[i] # p[j]
        /\ \A i, j \in DOMAIN sc : i < j => sc[p[i]] >= sc[p[j]]}

SkippedNegativeOnly(sc, idx) == sc[idx] < 0

\* if scores[idx] <= 0: continue
Skipped(sc, idx) == sc[idx] <= 0

\* the result dict keyword_search builds for corpus index idx
KeywordResult(md, sc, idx, rank) ==
    [rank |-> rank,
     chunk_id |-> md[idx].chunk_id,
     content |-> md[idx].content,
     metadata |-> md[idx].metadata,
     score |-> sc[idx],
     search_type |-> "keyword"]

\* the loop over ranked_indices from position i on, out being results so far:
\* the list returned, or the IndexError of self.metadata[idx]
RECURSIVE KeywordScan(_, _, _, _, _, _)
KeywordScan(md, sc, ranked, i, k, out) ==
    IF i > Len(ranked) THEN [error |-> "none", results |-> out]
    ELSE IF Skipped(sc, ranked[i]) THEN KeywordScan(md, sc, ranked, i + 1, k, out)
    ELSE IF ranked[i] > Len(md) THEN [error |-> "IndexError", results |-> <<>>]
    ELSE LET appended == Append(out, KeywordResult(md, sc, ranked[i], Len(out) + 1))
         IN  IF Len(appended) >= k
             THEN [error |-> "none", results |-> appended]
             ELSE KeywordScan(md, sc, ranked, i + 1, k, appended)

\* keyword_search, given the scores bm25.get_scores returned and the order
\* argsort left
keyword_search(md, sc, ranked, k) == KeywordScan(md, sc, ranked, 1, k, <<>>)

\* The inputs of keyword_search: a corpus with its index built over it (one
\* score per chunk), any scores, any top_k >= 0.
InitKeyword ==
    /\ pc = "ready"
    /\ query = <<>>
    /\ top_k \in 0..MaxTopK
    /\ k_rrf = K_RRF
    /\ vector_results = <<>>
    /\ keyword_results = <<>>
    /\ hybrid_results = <<>>
    /\ results = <<>>
    /\ filtered_results = <<>>
    /\ refiltered_results = <<>>
    /\ metadata \in {Corpus(n) : n \in 1..MaxCorpus}
    /\ scores = <<>>
    /\ final_results = <<>>
    /\ error = "none"
    /\ HybridIdle
    /\ StrategyIdle
    /\ EngineIdle
    /\ InterleaveIdle

\* keyword_search(query, top_k)
KeywordSearch ==
    /\ pc = "ready"
    /\ \E sc \in [DOMAIN metadata -> ScoreValues] :
       \E ranked \in RankedIndices(sc) :
          LET r == keyword_search(metadata, sc, ranked, top_k)
          IN  /\ scores' = sc
              /\ keyword_results' = r.results
              /\ error' = r.error
    /\ pc' = "keyword_search"
    /\ UNCHANGED <<query, top_k, k_rrf, vector_results, hybrid_results, results,
                   filtered_results, refiltered_results, metadata, final_results>>
    /\ UNCHANGED <<hybrid_vars, strategy_vars, engine_vars, interleave_vars>>

NextKeyword == KeywordSearch

SpecKeyword == InitKeyword /\ [][NextKeyword]_vars

(***************************************************************************)
(* rerank                                                                  *)
(***************************************************************************)
\* r with key f set to v
SetKey(r, f, v) == (f :> v) @@ r

RerankOrderAscending(sc) ==
    LET idx == [i \in DOMAIN sc |-> i]
    IN  SortedDesc(idx, [i \in DOMAIN sc |-> 0 - sc[i]])

\* sorted(results, key = lambda x: x['rerank_score'], reverse = True), as the
\* positions in results
RerankOrder(sc) ==
    LET idx == [i \in DOMAIN sc |-> i]
    IN  SortedDesc(idx, sc)

\* rerank, given the scores self.reranker.predict returns for the pairs:
\* out is the list returned, results the argument list, whose dicts the
\* function has changed in place
rerank(q, rs, k, sc) ==
    IF rs = <<>> THEN [out |-> rs, results |-> rs]
    ELSE LET order == RerankOrder(sc)
             place(i) == CHOOSE j \in DOMAIN order : order[j] = i
             changed == [i \in DOMAIN rs |->
                            SetKey(SetKey(rs[i], "rerank_score", sc[i]), "rank", place(i))]
             reranked == [j \in DOMAIN order |-> changed[order[j]]]
         IN  [out |-> Take(reranked, k), results |-> changed]

\* The inputs of rerank: a candidate list as the retrieval stages hand it
\* over, any top_k >= 0.
InitRerank ==
    /\ pc = "ready"
    /\ query = <<>>
    /\ top_k \in 0..MaxTopK
    /\ k_rrf = K_RRF
    /\ vector_results = <<>>
    /\ keyword_results = <<>>
    /\ hybrid_results = <<>>
    /\ results \in RankedLists("vector")
    /\ filtered_results = <<>>
    /\ refiltered_results = <<>>
    /\ metadata = <<>>
    /\ scores = <<>>
    /\ final_results = <<>>
    /\ error = "none"
    /\ HybridIdle
    /\ StrategyIdle
    /\ EngineIdle
    /\ InterleaveIdle

\* rerank(query, results, top_k); the scorer is called for a list that is not empty
Rerank ==
    /\ pc = "ready"
    /\ \E sc \in [DOMAIN results -> ScoreValues] :
          LET r == rerank(query, results, top_k, sc)
          IN  /\ scores' = sc
              /\ final_results' = r.out
              /\ results' = r.results
    /\ pc' = "rerank"
    /\ UNCHANGED <<query, top_k, k_rrf, vector_results, keyword_results, hybrid_results,
                   filtered_results, refiltered_results, metadata, error>>
    /\ UNCHANGED <<hybrid_vars, strategy_vars, engine_vars, interleave_vars>>

NextRerank == Rerank

SpecRerank == InitRerank /\ [][NextRerank]_vars

(***************************************************************************)
(* vector_search                                                           *)
(***************************************************************************)
\* search_k = top_k * 10
OVER_FETCH == 10

\* indices[0] of self.faiss_index.search(query_embedding, search_k) for an
\* index of ntotal vectors: the vectors nearest first, each once, as far as
\* search_k reaches, then -1 for every neighbour the index does not have
FaissIndices(ntotal, search_k) ==
    {[i \in 1..search_k |-> IF i <= Len(p) THEN p[i] - 1 ELSE 0 - 1] :
        p \in {s \in [1..ntotal -> 1..ntotal] :
                  \A i, j \in 1..ntotal : i # j => s[i] # s[j]}}

\* distances[0] where the values do not matter, position by position:
\* nearest first
Distance(i) == i - 1

\* the result dict vector_search builds for item at the given distance; the
\* score 1 / (1 + distance) is kept as the fraction <<1, 1 + distance>>,
\* whose denominator is 0 where the float division gives inf
VectorResult(item, distance, rank) ==
    [rank |-> rank,
     chunk_id |-> item.chunk_id,
     content |-> item.content,
     metadata |-> item.metadata,
     score |-> <<1, 1 + distance>>,
     search_type |-> "vector"]

\* self.metadata[idx] for a 0-based idx that is below len(self.metadata): a
\* negative idx counts from the end of the list
Item(md, idx) == IF idx >= 0 THEN md[idx + 1] ELSE md[Len(md) + idx + 1]

\* the loop over zip(indices[0], distances[0]) from position i on, out being
\* results so far: the list returned, or the IndexError of self.metadata[idx]
RECURSIVE VectorScan(_, _, _, _, _, _)
VectorScan(md, ind, dist, i, k, out) ==
    IF i > Len(ind) THEN [error |-> "none", results |-> out]
    ELSE IF ind[i] >= Len(md) THEN VectorScan(md, ind, dist, i + 1, k, out)
    ELSE IF ind[i] < 0 - Len(md) THEN [error |-> "IndexError", results |-> <<>>]
    ELSE LET appended == Append(out, VectorResult(Item(md, ind[i]), dist[i], Len(out) + 1))
         IN  IF Len(appended) >= k
             THEN [error |-> "none", results |-> appended]
             ELSE VectorScan(md, ind, dist, i + 1, k, appended)

\* vector_search of an engine that has its embedding manager, given the
\* indices and distances the dense index returned
vector_search(md, ind, dist, k) == VectorScan(md, ind, dist, 1, k, <<>>)

(***************************************************************************)
(* hybrid_search, stage by stage                                           *)
(***************************************************************************)
MaxHybridCorpus == 2   \* most chunks of a corpus searched by hybrid_search

\* self.rerank(query, filtered_results[:10], top_k)
RERANK_CAP == 10

\* doc_name of a chunk: the base act or its enforcement decree
HybridDocs == {<<"geonchukbeop">>, <<"geonchukbeop", "sihaengnyeong">>}

\* a query no rule of the filter matches, and one that asks for the decree
HybridQueries == {<<"geonpyeyul">>, <<"geonpyeyul", "sihaengnyeong">>}

\* self.metadata with the given doc_name chunk by chunk
HybridCorpus(docs) ==
    [i \in DOMAIN docs |->
        [chunk_id |-> i,
         content |-> <<"content", i>>,
         metadata |-> [doc_name |-> docs[i], page |-> i]]]

update_progressUnguarded(ev, msg) == Append(ev, msg)

\* update_progress(msg): the sink is called only if there is one
update_progress(ev, msg) == IF progress_callback = "sink" THEN Append(ev, msg) ELSE ev

\* the scores self.reranker.predict may return for n pairs: any scores for a
\* short list, three scorers for a long one
PredictScores(n) ==
    IF n <= MaxLen THEN [1..n -> 0..1]
    ELSE {[i \in 1..n |-> 0], [i \in 1..n |-> i], [i \in 1..n |-> n - i]}

\* the engine and the call: a small corpus of any make-up with a dense index
\* of any size (a stale index differs from the corpus), or a corpus one chunk
\* longer than the cap of the reranker with its index, searched to that depth
\* without keyword fusion
InitHybrid ==
    /\ pc = "ready"
    /\ k_rrf = K_RRF
    /\ vector_results = <<>>
    /\ keyword_results = <<>>
    /\ hybrid_results = <<>>
    /\ results = <<>>
    /\ filtered_results = <<>>
    /\ refiltered_results = <<>>
    /\ scores = <<>>
    /\ final_results = <<>>
    /\ error = "none"
    /\ use_rerank \in BOOLEAN
    /\ progress_callback \in {"None", "sink"}
    /\ events = <<>>
    /\ predict_calls = 0
    /\ pairs = <<>>
    /\ \/ /\ metadata \in {HybridCorpus(docs) :
                              docs \in UNION {[1..n -> HybridDocs] : n \in 0..MaxHybridCorpus}}
          /\ query \in HybridQueries
          /\ top_k \in 1..MaxLen
          /\ use_bm25 \in BOOLEAN
          /\ \E ntotal \in 0..MaxHybridCorpus :
                indices \in FaissIndices(ntotal, top_k * OVER_FETCH)
       \/ /\ metadata = HybridCorpus([i \in 1..(RERANK_CAP + 1) |-> <<"geonchukbeop">>])
          /\ query = <<"geonpyeyul">>
          /\ top_k \in {RERANK_CAP - 1, RERANK_CAP + 1}
          /\ use_bm25 = FALSE
          /\ indices = [i \in 1..(top_k * OVER_FETCH) |->
                           IF i <= RERANK_CAP + 1 THEN i - 1 ELSE 0 - 1]
    /\ distances = [i \in DOMAIN indices |-> Distance(i)]
    /\ StrategyIdle
    /\ EngineIdle
    /\ InterleaveIdle

\* vector_results = self.vector_search(query, top_k = top_k), between its
\* two progress messages
HybridVectorSearch ==
    /\ pc = "ready"
    /\ LET r == vector_search(metadata, indices, distances, top_k)
           started == update_progress(events, <<"vector_search">>)
       IN  /\ vector_results' = r.results
           /\ error' = r.error
           /\ IF r.error = "none"
              THEN /\ events' = update_progress(started, <<"vector_search done", Len(r.results)>>)
                   /\ pc' = IF use_bm25 THEN "keyword_search" ELSE "filter_by_doc_name"
                   /\ hybrid_results' = IF use_bm25 THEN hybrid_results ELSE r.results
              ELSE /\ events' = started
                   /\ pc' = "raised"
                   /\ hybrid_results' = hybrid_results
    /\ UNCHANGED <<query, top_k, k_rrf, keyword_results, results, filtered_results,
                   refiltered_results, metadata, scores, final_results>>
    /\ UNCHANGED <<use_rerank, use_bm25, progress_callback, indices, distances,
                   predict_calls, pairs>>
    /\ UNCHANGED <<strategy_vars, engine_vars, interleave_vars>>

\* keyword_results = self.keyword_search(query, top_k = top_k), between its
\* two progress messages; the lexical index was built over self.metadata
HybridKeywordSearch ==
    /\ pc = "keyword_search"
    /\ \E sc \in [DOMAIN metadata -> 0..1] :
       \E ranked \in RankedIndices(sc) :
          LET r == keyword_search(metadata, sc, ranked, top_k)
              started == update_progress(events, <<"keyword_search">>)
          IN  /\ scores' = sc
              /\ keyword_results' = r.results
              /\ error' = r.error
              /\ IF r.error = "none"
                 THEN /\ events' = update_progress(started,
                                       <<"keyword_search done", Len(r.results)>>)
                      /\ pc' = "reciprocal_rank_fusion"
                 ELSE /\ events' = started
                      /\ pc' = "raised"
    /\ UNCHANGED <<query, top_k, k_rrf, vector_results, hybrid_results, results,
                   filtered_results, refiltered_results, metadata, final_results>>
    /\ UNCHANGED <<use_rerank, use_bm25, progress_callback, indices, distances,
                   predict_calls, pairs>>
    /\ UNCHANGED <<strategy_vars, engine_vars, interleave_vars>>

\* hybrid_results = self.reciprocal_rank_fusion(vector_results, keyword_results)
HybridFusion ==
    /\ pc = "reciprocal_rank_fusion"
    /\ events' = update_progress(events, <<"reciprocal_rank_fusion">>)
    /\ hybrid_results' = reciprocal_rank_fusion(vector_results, keyword_results, k_rrf)
    /\ pc' = "filter_by_doc_name"
    /\ UNCHANGED <<query, top_k, k_rrf, vector_results, keyword_results, results,
                   filtered_results, refiltered_results, metadata, scores,
                   final_results, error>>
    /\ UNCHANGED <<use_rerank, use_bm25, progress_callback, indices, distances,
                   predict_calls, pairs>>
    /\ UNCHANGED <<strategy_vars, engine_vars, interleave_vars>>

AfterFilterAlwaysRerank == "rerank"

\* if use_rerank: the rerank stage, else: the truncation
AfterFilter == IF use_rerank THEN "rerank" ELSE "truncate"

\* filtered_results = self.filter_by_doc_name(hybrid_results, query), between
\* its two progress messages
HybridFilter ==
    /\ pc = "filter_by_doc_name"
    /\ LET filtered == filter_by_doc_name(hybrid_results, query)
       IN  /\ filtered_results' = filtered
           /\ events' = update_progress(
                            update_progress(events, <<"filter_by_doc_name">>),
                            <<"filter_by_doc_name done", Len(filtered)>>)
    /\ pc' = AfterFilter
    /\ UNCHANGED <<query, top_k, k_rrf, vector_results, keyword_results, hybrid_results,
                   results, refiltered_results, metadata, scores, final_results, error>>
    /\ UNCHANGED <<use_rerank, use_bm25, progress_callback, indices, distances,
                   predict_calls, pairs>>
    /\ UNCHANGED <<strategy_vars, engine_vars, interleave_vars>>

RerankCandidatesAll(rs) == rs

\* filtered_results[:10]
RerankCandidates(rs) == Take(rs, RERANK_CAP)

\* final_results = self.rerank(query, filtered_results[:10], top_k), after its
\* progress message; the scorer is called for a list that is not empty, and
\* rerank changes the dicts of the candidates in place
HybridRerank ==
    /\ pc = "rerank"
    /\ events' = update_progress(events, <<"rerank">>)
    /\ LET candidates == RerankCandidates(filtered_results)
       IN  IF candidates = <<>>
           THEN /\ final_results' = rerank(query, candidates, top_k, <<>>).out
                /\ UNCHANGED <<scores, filtered_results, predict_calls, pairs>>
           ELSE \E sc \in PredictScores(Len(candidates)) :
                   LET r == rerank(query, candidates, top_k, sc)
                   IN  /\ scores' = sc
                       /\ pairs' = candidates
                       /\ predict_calls' = predict_calls + 1
                       /\ final_results' = r.out
                       /\ filtered_results' =
                              r.results \o SubSeq(filtered_results, Len(candidates) + 1,
                                                  Len(filtered_results))
    /\ pc' = "returned"
    /\ UNCHANGED <<query, top_k, k_rrf, vector_results, keyword_results, hybrid_results,
                   results, refiltered_results, metadata, error>>
    /\ UNCHANGED <<use_rerank, use_bm25, progress_callback, indices, distances>>
    /\ UNCHANGED <<strategy_vars, engine_vars, interleave_vars>>

\* final_results = filtered_results[:top_k]
HybridTruncate ==
    /\ pc = "truncate"
    /\ final_results' = Take(filtered_results, top_k)
    /\ pc' = "returned"
    /\ UNCHANGED <<query, top_k, k_rrf, vector_results, keyword_results, hybrid_results,
                   results, filtered_results, refiltered_results, metadata, scores, error>>
    /\ UNCHANGED <<hybrid_vars, strategy_vars, engine_vars, interleave_vars>>

NextHybrid ==
    \/ HybridVectorSearch
    \/ HybridKeywordSearch
    \/ HybridFusion
    \/ HybridFilter
    \/ HybridRerank
    \/ HybridTruncate

SpecHybrid == InitHybrid /\ [][NextHybrid]_vars

(***************************************************************************)
(* QueryClassifier and the callers of the search engine                    *)
(***************************************************************************)
\* the six query types, in the order of valid_types: beopjomun_johoe is
\* the article lookup, ilban_jeongbo_geomsaek the general information search
valid_types ==
    <<"beopjomun_johoe", "ilban_jeongbo_geomsaek", "sanghwangbyeol_consulting",
      "jeolcha_annae", "munseo_saengseong", "bigyo_bunseok">>

ValidTypes == {valid_types[i] : i \in DOMAIN valid_types}

\* labels outside the six: the casual conversation label generate_answer
\* tests for, the empty string, another word, and None (no query_type key)
OtherTypes == {"ilsang_daehwa", "", "beopjomun", "None"}

\* the strategies dict of get_search_strategy
strategies ==
    [t \in ValidTypes |->
        CASE t = "beopjomun_johoe"           -> [search_method |-> "keyword", top_k |-> 5]
          [] t = "ilban_jeongbo_geomsaek"    -> [search_method |-> "hybrid", top_k |-> 10]
          [] t = "sanghwangbyeol_consulting" -> [search_method |-> "hybrid", top_k |-> 15]
          [] t = "jeolcha_annae"             -> [search_method |-> "hybrid", top_k |-> 10]
          [] t = "munseo_saengseong"         -> [search_method |-> "hybrid", top_k |-> 20]
          [] t = "bigyo_bunseok"             -> [search_method |-> "hybrid", top_k |-> 12]]

get_search_strategyNoDefault(query_type) ==
    IF query_type \in DOMAIN strategies
    THEN strategies[query_type]
    ELSE [search_method |-> "KeyError", top_k |-> 0]

\* strategies.get(query_type, strategies["ilban_jeongbo_geomsaek"])
get_search_strategy(query_type) ==
    IF query_type \in DOMAIN strategies
    THEN strategies[query_type]
    ELSE strategies["ilban_jeongbo_geomsaek"]

\* what the chat completion may give classify: a JSON object with any
\* query_type or without one, JSON that is not an object, or an exception
\* (the request failed, the content is not JSON)
Responses ==
    {[kind |-> "object", query_type |-> t] : t \in ValidTypes \cup OtherTypes}
    \cup {[kind |-> "not an object", query_type |-> "None"],
          [kind |-> "exception", query_type |-> "None"]}

classifyUnchecked(r) == r.query_type

\* classify(query)["query_type"] for a response r of the chat completion
classify(r) ==
    IF r.kind = "object" /\ r.query_type \in ValidTypes
    THEN r.query_type
    ELSE "ilban_jeongbo_geomsaek"

\* the flows that search: generate_answer of the QA system, test_search of
\* the flow test, the chat input handler of the application; and a caller
\* that hands get_search_strategy any label
Flows == {"generate_answer", "test_search", "app", "get_search_strategy"}

InitStrategy ==
    /\ pc = "ready"
    /\ query \in HybridQueries
    /\ top_k = 0
    /\ k_rrf = K_RRF
    /\ vector_results = <<>>
    /\ keyword_results = <<>>
    /\ hybrid_results = <<>>
    /\ results = <<>>
    /\ filtered_results = <<>>
    /\ refiltered_results = <<>>
    /\ metadata = <<>>
    /\ scores = <<>>
    /\ final_results = <<>>
    /\ error = "none"
    /\ HybridIdle
    /\ flow \in Flows
    /\ response = NoResponse
    /\ classification = "none"
    /\ strategy = "none"
    /\ search_call = NoCall
    /\ EngineIdle
    /\ InterleaveIdle

\* classification = classifier.classify(query), in each flow that searches
Classify ==
    /\ pc = "ready"
    /\ flow \in {"generate_answer", "test_search", "app"}
    /\ \E r \in Responses :
          /\ response' = r
          /\ classification' = classify(r)
    /\ pc' = "classified"
    /\ UNCHANGED <<query, top_k, k_rrf, vector_results, keyword_results, hybrid_results,
                   results, filtered_results, refiltered_results, metadata, scores,
                   final_results, error>>
    /\ UNCHANGED <<flow, strategy, search_call>>
    /\ UNCHANGED <<hybrid_vars, engine_vars, interleave_vars>>

\* strategy = classifier.get_search_strategy(classification['query_type']) in
\* test_search and in the application
GetSearchStrategy ==
    /\ pc = "classified"
    /\ flow \in {"test_search", "app"}
    /\ strategy' = get_search_strategy(classification)
    /\ pc' = "strategy"
    /\ UNCHANGED <<query, top_k, k_rrf, vector_results, keyword_results, hybrid_results,
                   results, filtered_results, refiltered_results, metadata, scores,
                   final_results, error>>
    /\ UNCHANGED <<flow, response, classification, search_call>>
    /\ UNCHANGED <<hybrid_vars, engine_vars, interleave_vars>>

\* get_search_strategy(query_type) for any label
GetSearchStrategyOfLabel ==
    /\ pc = "ready"
    /\ flow = "get_search_strategy"
    /\ \E query_type \in ValidTypes \cup OtherTypes :
          /\ classification' = query_type
          /\ strategy' = get_search_strategy(query_type)
    /\ pc' = "strategy"
    /\ UNCHANGED <<query, top_k, k_rrf, vector_results, keyword_results, hybrid_results,
                   results, filtered_results, refiltered_results, metadata, scores,
                   final_results, error>>
    /\ UNCHANGED <<flow, response, search_call>>
    /\ UNCHANGED <<hybrid_vars, engine_vars, interleave_vars>>

\* get_search_strategy(query_type) once more, for the same label
GetSearchStrategyAgain ==
    /\ pc = "strategy"
    /\ flow = "get_search_strategy"
    /\ strategy' = get_search_strategy(classification)
    /\ pc' = "strategy again"
    /\ UNCHANGED <<query, top_k, k_rrf, vector_results, keyword_results, hybrid_results,
                   results, filtered_results, refiltered_results, metadata, scores,
                   final_results, error>>
    /\ UNCHANGED <<flow, response, classification, search_call>>
    /\ UNCHANGED <<hybrid_vars, engine_vars, interleave_vars>>

\* a call of the engine as a caller writes it: hybrid_search with the
\* defaults use_rerank = True and use_bm25 = False where the caller names none
HybridSearchCall(q, k, rerank_flag, bm25_flag) ==
    [function |-> "hybrid_search", query |-> q, top_k |-> k,
     use_rerank |-> rerank_flag, use_bm25 |-> bm25_flag]

VectorSearchCall(q, k) == [function |-> "vector_search", query |-> q, top_k |-> k]

\* generate_answer after classify: for the casual conversation label the
\* casual response, without a search; else _execute_search(query,
\* query_type, top_k = 3, ...), which is hybrid_search(query, top_k = top_k,
\* use_rerank = True, ...)
ExecuteSearch ==
    /\ pc = "classified"
    /\ flow = "generate_answer"
    /\ IF classification = "ilsang_daehwa"
       THEN /\ search_call' = search_call
            /\ pc' = "answered"
       ELSE /\ search_call' = HybridSearchCall(query, 3, TRUE, FALSE)
            /\ pc' = "searched"
    /\ UNCHANGED <<query, top_k, k_rrf, vector_results, keyword_results, hybrid_results,
                   results, filtered_results, refiltered_results, metadata, scores,
                   final_results, error>>
    /\ UNCHANGED <<flow, response, classification, strategy>>
    /\ UNCHANGED <<hybrid_vars, engine_vars, interleave_vars>>

\* the if / elif of test_search: hybrid_search or vector_search with the
\* strategy's top_k; no branch for 'keyword', and then len(results) raises
TestSearch ==
    /\ pc = "strategy"
    /\ flow = "test_search"
    /\ IF strategy.search_method = "hybrid"
       THEN /\ search_call' = HybridSearchCall(query, strategy.top_k, TRUE, FALSE)
            /\ error' = error
       ELSE IF strategy.search_method = "vector"
       THEN /\ search_call' = VectorSearchCall(query, strategy.top_k)
            /\ error' = error
       ELSE /\ search_call' = search_call
            /\ error' = "UnboundLocalError"
    /\ pc' = "searched"
    /\ UNCHANGED <<query, top_k, k_rrf, vector_results, keyword_results, hybrid_results,
                   results, filtered_results, refiltered_results, metadata, scores,
                   final_results>>
    /\ UNCHANGED <<flow, response, classification, strategy>>
    /\ UNCHANGED <<hybrid_vars, engine_vars, interleave_vars>>

\* the chat input handler: engine.hybrid_search(prompt, top_k = strategy['top_k'])
AppSearch ==
    /\ pc = "strategy"
    /\ flow = "app"
    /\ search_call' = HybridSearchCall(query, strategy.top_k, TRUE, FALSE)
    /\ pc' = "searched"
    /\ UNCHANGED <<query, top_k, k_rrf, vector_results, keyword_results, hybrid_results,
                   results, filtered_results, refiltered_results, metadata, scores,
                   final_results, error>>
    /\ UNCHANGED <<flow, response, classification, strategy>>
    /\ UNCHANGED <<hybrid_vars, engine_vars, interleave_vars>>

\* the keys of the dict _load_response_templates returns
response_templates ==
    {"beopjomun_johoe", "ilban_jeongbo_geomsaek", "sanghwangbyeol_consulting",
     "jeolcha_annae", "munseo_saengseong", "bigyo_bunseok"}

\* _generate_answer of generate_answer: system_prompt =
\* self.response_templates[query_type], outside its try block
GenerateAnswer ==
    /\ pc = "searched"
    /\ flow = "generate_answer"
    /\ error' = IF classification \in response_templates THEN "none" ELSE "KeyError"
    /\ pc' = "answered"
    /\ UNCHANGED <<query, top_k, k_rrf, vector_results, keyword_results, hybrid_results,
                   results, filtered_results, refiltered_results, metadata, scores,
                   final_results>>
    /\ UNCHANGED <<flow, response, classification, strategy, search_call>>
    /\ UNCHANGED <<hybrid_vars, engine_vars, interleave_vars>>

NextStrategy ==
    \/ GenerateAnswer
    \/ Classify
    \/ GetSearchStrategy
    \/ GetSearchStrategyOfLabel
    \/ GetSearchStrategyAgain
    \/ ExecuteSearch
    \/ TestSearch
    \/ AppSearch

SpecStrategy == InitStrategy /\ [][NextStrategy]_vars

(***************************************************************************)
(* The lexical index of an engine: build, save, load                       *)
(***************************************************************************)
MaxEngineCorpus == 2   \* most chunks of a corpus an engine is constructed over

\* tokens of a text that \w+ does not match
Punctuation == {",", "."}

\* tokenize_korean(text): re.findall(r'\w+', text.lower())
tokenize_korean(text) ==
    LET words == SelectSeq(text, LAMBDA t : t \notin Punctuation)
    IN  [i \in DOMAIN words |-> Lower(words[i])]

\* the content of a chunk
EngineContents == {<<"Auri", ",", "gukto">>, <<"geonpyeyul", ".">>}

\* the corpora an engine is constructed over: metadata
EngineCorpora ==
    {[i \in DOMAIN texts |->
         [chunk_id |-> i,
          content |-> texts[i],
          metadata |-> [doc_name |-> <<"doc", i>>, page |-> i]]] :
     texts \in UNION {[1..n -> EngineContents] : n \in 0..MaxEngineCorpus}}

EngineQueries == {<<"gukto">>, <<"Geonpyeyul", "auri">>}

\* the file at bm25_index_path does not exist
NoBlob == [exists |-> FALSE, corpus |-> <<>>]

\* build_bm25_index: self.bm25_corpus, the tokens of each item's content in
\* the order of self.metadata; self.bm25 is the index over these documents
build_bm25_index(md) == [i \in DOMAIN md |-> tokenize_korean(md[i].content)]

\* save_bm25_index: the pickle of self.bm25 and self.bm25_corpus
save_bm25_index(corpus) == [exists |-> TRUE, corpus |-> corpus]

\* load_bm25_index: self.bm25 and self.bm25_corpus as the file has them
load_bm25_index(file) == file.corpus

\* self.bm25.get_scores(query_tokens): one score per document of the index,
\* zero for a document that has no token of the query
GetScores(corpus, query_tokens) ==
    {sc \in [DOMAIN corpus -> 0..1] :
        \A i \in DOMAIN corpus :
            (\A j \in DOMAIN corpus[i] :
                 \A t \in DOMAIN query_tokens : corpus[i][j] # query_tokens[t])
            => sc[i] = 0}

InitEngine ==
    /\ pc = "ready"
    /\ query = <<>>
    /\ top_k = 0
    /\ k_rrf = K_RRF
    /\ vector_results = <<>>
    /\ keyword_results = <<>>
    /\ hybrid_results = <<>>
    /\ results = <<>>
    /\ filtered_results = <<>>
    /\ refiltered_results = <<>>
    /\ metadata = <<>>
    /\ scores = <<>>
    /\ final_results = <<>>
    /\ error = "none"
    /\ HybridIdle
    /\ StrategyIdle
    /\ EngineIdle
    /\ InterleaveIdle

\* self.bm25 = BM25Okapi(self.bm25_corpus): the constructor of rank_bm25
\* divides the number of tokens by the number of documents (avgdl), so it
\* raises for a corpus without documents
BM25Okapi(corpus) == IF corpus = <<>> THEN "ZeroDivisionError" ELSE "none"

\* LegalSearchEngine(faiss_index, metadata, embedding_manager, bm25_index_path)
\* for any corpus, without a path or with the one path: the lexical index is
\* loaded if the file exists, else built, and saved if there is a path; a
\* build that raises leaves no engine and no file
Construct ==
    /\ pc \in {"ready", "constructed", "keyword_search", "raised"}
    /\ \E corpus \in EngineCorpora, bm25_index_path \in {"None", "path"} :
          LET exists == bm25_index_path # "None" /\ blob.exists
              built == build_bm25_index(corpus)
              raised == IF exists THEN "none" ELSE BM25Okapi(built)
          IN  /\ metadata' = corpus
              /\ bm25_corpus' = IF exists THEN load_bm25_index(blob) ELSE built
              /\ blob' = IF ~ exists /\ bm25_index_path # "None" /\ raised = "none"
                         THEN save_bm25_index(built)
                         ELSE blob
              /\ error' = raised
              /\ pc' = IF raised = "none" THEN "constructed" ELSE "raised"
    /\ query' = <<>>
    /\ top_k' = 0
    /\ scores' = <<>>
    /\ keyword_results' = <<>>
    /\ UNCHANGED <<k_rrf, vector_results, hybrid_results, results, filtered_results,
                   refiltered_results, final_results>>
    /\ UNCHANGED <<hybrid_vars, strategy_vars, interleave_vars>>

\* keyword_search(query, top_k) of the engine constructed last
EngineKeywordSearch ==
    /\ pc = "constructed"
    /\ \E q \in EngineQueries, k \in 1..MaxEngineCorpus :
       \E sc \in GetScores(bm25_corpus, tokenize_korean(q)) :
       \E ranked \in RankedIndices(sc) :
          LET r == keyword_search(metadata, sc, ranked, k)
          IN  /\ query' = q
              /\ top_k' = k
              /\ scores' = sc
              /\ keyword_results' = r.results
              /\ error' = r.error
    /\ pc' = "keyword_search"
    /\ UNCHANGED <<k_rrf, vector_results, hybrid_results, results, filtered_results,
                   refiltered_results, metadata, final_results>>
    /\ UNCHANGED <<hybrid_vars, strategy_vars, engine_vars, interleave_vars>>

NextEngine == Construct \/ EngineKeywordSearch

SpecEngine == InitEngine /\ [][NextEngine]_vars

(***************************************************************************)
(* vector_search alone, over the distances of either metric                *)
(***************************************************************************)
MaxDistance == 2   \* largest distance of a neighbour the index has

\* s is in non-decreasing order
NonDecreasing(s) == \A i, j \in DOMAIN s : i < j => s[i] <= s[j]

\* distances[0] of self.faiss_index.search for an index of ntotal vectors,
\* nearest first: squared L2 distances, smallest first, or inner products,
\* largest first; where the index has no neighbour the distance is the
\* largest float for L2 and the smallest for the inner product, here one
\* beyond MaxDistance
FaissDistances(metric, ntotal, search_k) ==
    IF metric = "L2"
    THEN {[i \in 1..search_k |-> IF i <= ntotal THEN d[i] ELSE MaxDistance + 1] :
             d \in {s \in [1..ntotal -> 0..MaxDistance] : NonDecreasing(s)}}
    ELSE {[i \in 1..search_k |-> IF i <= ntotal THEN 0 - d[i] ELSE 0 - (MaxDistance + 1)] :
             d \in {s \in [1..ntotal -> (0 - MaxDistance)..MaxDistance] : NonDecreasing(s)}}

\* The inputs of vector_search: a corpus with its dense index, of either
\* metric, and any top_k >= 1.
InitVector ==
    /\ pc = "ready"
    /\ query = <<>>
    /\ top_k \in 1..MaxLen
    /\ k_rrf = K_RRF
    /\ vector_results = <<>>
    /\ keyword_results = <<>>
    /\ hybrid_results = <<>>
    /\ results = <<>>
    /\ filtered_results = <<>>
    /\ refiltered_results = <<>>
    /\ metadata \in {Corpus(n) : n \in 1..MaxHybridCorpus}
    /\ scores = <<>>
    /\ final_results = <<>>
    /\ error = "none"
    /\ use_rerank = FALSE
    /\ use_bm25 = FALSE
    /\ progress_callback = "None"
    /\ events = <<>>
    /\ indices \in FaissIndices(Len(metadata), top_k * OVER_FETCH)
    /\ \E metric \in {"L2", "IP"} :
          distances \in FaissDistances(metric, Len(metadata), top_k * OVER_FETCH)
    /\ predict_calls = 0
    /\ pairs = <<>>
    /\ StrategyIdle
    /\ EngineIdle
    /\ InterleaveIdle

\* vector_search(query, top_k)
VectorSearch ==
    /\ pc = "ready"
    /\ LET r == vector_search(metadata, indices, distances, top_k)
       IN  /\ vector_results' = r.results
           /\ error' = r.error
    /\ pc' = "vector_search"
    /\ UNCHANGED <<query, top_k, k_rrf, keyword_results, hybrid_results, results,
                   filtered_results, refiltered_results, metadata, scores, final_results>>
    /\ UNCHANGED <<hybrid_vars, strategy_vars, engine_vars, interleave_vars>>

NextVector == VectorSearch

SpecVector == InitVector /\ [][NextVector]_vars

(***************************************************************************)
(* Two hybrid_search calls on one engine, interleaved at the boundaries of *)
(* their stages (specification SpecInterleave).  The embedding, the two    *)
(* indexes and the scorer answer as functions of what they are given.      *)
(***************************************************************************)
MaxInterleaveCorpus == 2   \* chunks of the shared engine's corpus

CallIds == {"first", "second"}

\* self.metadata, the content of a chunk being the words of its doc_name
InterleaveCorpus(docs) ==
    [i \in DOMAIN docs |->
        [chunk_id |-> i,
         content |-> docs[i],
         metadata |-> [doc_name |-> docs[i], page |-> i]]]

\* self.embedding_manager.embed_text(query): a vector of one coordinate
embed_text(q) == Len(q) - 1

SquaredL2(v, e) == (v - e) * (v - e)

\* self.faiss_index.search(query_embedding, search_k): the stored vectors
\* nearest first, the lower id first among equals, 0-based, and -1 with the
\* largest distance where the index has no more vectors
faiss_search(index, e, search_k) ==
    LET ids == [i \in DOMAIN index |-> i]
        key == [i \in DOMAIN index |-> 0 - SquaredL2(index[i], e)]
        nearest == SortedDesc(ids, key)
    IN  [indices |-> [j \in 1..search_k |->
                         IF j <= Len(nearest) THEN nearest[j] - 1 ELSE 0 - 1],
         distances |-> [j \in 1..search_k |->
                           IF j <= Len(nearest)
                           THEN SquaredL2(index[nearest[j]], e)
                           ELSE MaxDistance + 1]]

\* self.bm25.get_scores(query_tokens) of a scorer that gives one to each
\* document holding a token of the query
get_scores(corpus, query_tokens) ==
    [i \in DOMAIN corpus |->
        IF \E j \in DOMAIN corpus[i], t \in DOMAIN query_tokens :
               corpus[i][j] = query_tokens[t]
        THEN 1 ELSE 0]

\* np.argsort(scores)[::-1] of a stable sort: the higher index first among
\* equal scores
argsort_reversed(sc) ==
    SortedDesc([i \in DOMAIN sc |-> Len(sc) + 1 - i], sc)

\* self.reranker.predict(pairs): a score for each pair of query and content
predict(q, rs) == [i \in DOMAIN rs |-> (rs[i].chunk_id + Len(q)) % 2]

FrameShared(c) == "first"

\* the frame holding the local variables of call c: its own
Frame(c) == c

\* the local variables at the start of hybrid_search
NoLocals ==
    [vector_results |-> <<>>, keyword_results |-> <<>>, hybrid_results |-> <<>>,
     filtered_results |-> <<>>, final_results |-> <<>>]

\* the arguments of a call
CallArgs ==
    [query : HybridQueries, top_k : {1, MaxInterleaveCorpus},
     use_rerank : BOOLEAN, use_bm25 : BOOLEAN]

\* a call is between its first stage and its return
Running(c) == calls[c].pc \notin {"ready", "returned", "raised"}

\* call c has taken a step; interleaved records whether another call was
\* running at one of its steps
Step(c, place, err, out) ==
    [calls EXCEPT ![c].pc = place,
                  ![c].error = err,
                  ![c].returned = out,
                  ![c].interleaved = @ \/ \E o \in CallIds \ {c} : Running(o)]

InitInterleave ==
    /\ pc = "ready"
    /\ query = <<>>
    /\ top_k = 0
    /\ k_rrf = K_RRF
    /\ vector_results = <<>>
    /\ keyword_results = <<>>
    /\ hybrid_results = <<>>
    /\ results = <<>>
    /\ filtered_results = <<>>
    /\ refiltered_results = <<>>
    /\ scores = <<>>
    /\ final_results = <<>>
    /\ error = "none"
    /\ HybridIdle
    /\ StrategyIdle
    /\ metadata \in {InterleaveCorpus(docs) : docs \in [1..MaxInterleaveCorpus -> HybridDocs]}
    /\ blob = NoBlob
    /\ bm25_corpus = build_bm25_index(metadata)
    /\ faiss_index \in {[i \in DOMAIN metadata |-> i % 2],
                         [i \in DOMAIN metadata |-> (i + 1) % 2]}
    /\ calls \in [CallIds -> {[args |-> a, pc |-> "ready", error |-> "none",
                                returned |-> <<>>, interleaved |-> FALSE] :
                               a \in CallArgs}]
    /\ locals = [c \in CallIds |-> NoLocals]

\* what a stage of a call leaves alone: the engine and the modelled single call
InterleaveFrame ==
    /\ UNCHANGED <<pc, query, top_k, k_rrf, vector_results, keyword_results,
                   hybrid_results, results, filtered_results, refiltered_results,
                   metadata, scores, final_results, error>>
    /\ UNCHANGED <<hybrid_vars, strategy_vars, engine_vars, faiss_index>>

\* vector_results = self.vector_search(query, top_k = top_k) of call c, and
\* hybrid_results = vector_results of a call without keyword fusion
CallVectorSearch(c) ==
    /\ calls[c].pc = "ready"
    /\ LET a == calls[c].args
           found == faiss_search(faiss_index, embed_text(a.query), a.top_k * OVER_FETCH)
           r == vector_search(metadata, found.indices, found.distances, a.top_k)
       IN  IF r.error = "none"
           THEN /\ locals' = [locals EXCEPT
                                 ![Frame(c)].vector_results = r.results,
                                 ![Frame(c)].hybrid_results =
                                     IF a.use_bm25 THEN @ ELSE r.results]
                /\ calls' = Step(c, IF a.use_bm25 THEN "keyword_search"
                                    ELSE "filter_by_doc_name", "none", <<>>)
           ELSE /\ locals' = locals
                /\ calls' = Step(c, "raised", r.error, <<>>)
    /\ InterleaveFrame

\* keyword_results = self.keyword_search(query, top_k = top_k) of call c
CallKeywordSearch(c) ==
    /\ calls[c].pc = "keyword_search"
    /\ LET a == calls[c].args
           sc == get_scores(bm25_corpus, tokenize_korean(a.query))
           r == keyword_search(metadata, sc, argsort_reversed(sc), a.top_k)
       IN  IF r.error = "none"
           THEN /\ locals' = [locals EXCEPT ![Frame(c)].keyword_results = r.results]
                /\ calls' = Step(c, "reciprocal_rank_fusion", "none", <<>>)
           ELSE /\ locals' = locals
                /\ calls' = Step(c, "raised", r.error, <<>>)
    /\ InterleaveFrame

\* hybrid_results = self.reciprocal_rank_fusion(vector_results,
\* keyword_results) of call c
CallFusion(c) ==
    /\ calls[c].pc = "reciprocal_rank_fusion"
    /\ locals' = [locals EXCEPT ![Frame(c)].hybrid_results =
                      reciprocal_rank_fusion(locals[Frame(c)].vector_results,
                                             locals[Frame(c)].keyword_results, K_RRF)]
    /\ calls' = Step(c, "filter_by_doc_name", "none", <<>>)
    /\ InterleaveFrame

\* filtered_results = self.filter_by_doc_name(hybrid_results, query) of call c
CallFilter(c) ==
    /\ calls[c].pc = "filter_by_doc_name"
    /\ locals' = [locals EXCEPT ![Frame(c)].filtered_results =
                      filter_by_doc_name(locals[Frame(c)].hybrid_results,
                                         calls[c].args.query)]
    /\ calls' = Step(c, IF calls[c].args.use_rerank THEN "rerank" ELSE "truncate",
                     "none", <<>>)
    /\ InterleaveFrame

\* final_results = self.rerank(query, filtered_results[:10], top_k) of call
\* c, which changes the dicts of its candidates in place, and the return
CallRerank(c) ==
    /\ calls[c].pc = "rerank"
    /\ LET a == calls[c].args
           filtered == locals[Frame(c)].filtered_results
           candidates == RerankCandidates(filtered)
           r == rerank(a.query, candidates, a.top_k, predict(a.query, candidates))
       IN  /\ locals' = [locals EXCEPT
                            ![Frame(c)].filtered_results =
                                r.results \o SubSeq(filtered, Len(candidates) + 1,
                                                    Len(filtered)),
                            ![Frame(c)].final_results = r.out]
           /\ calls' = Step(c, "returned", "none", r.out)
    /\ InterleaveFrame

\* final_results = filtered_results[:top_k] of call c, and the return
CallTruncate(c) ==
    /\ calls[c].pc = "truncate"
    /\ LET out == Take(locals[Frame(c)].filtered_results, calls[c].args.top_k)
       IN  /\ locals' = [locals EXCEPT ![Frame(c)].final_results = out]
           /\ calls' = Step(c, "returned", "none", out)
    /\ InterleaveFrame

NextInterleave ==
    \/ \E c \in CallIds : CallVectorSearch(c)
    \/ \E c \in CallIds : CallKeywordSearch(c)
    \/ \E c \in CallIds : CallFusion(c)
    \/ \E c \in CallIds : CallFilter(c)
    \/ \E c \in CallIds : CallRerank(c)
    \/ \E c \in CallIds : CallTruncate(c)

SpecInterleave == InitInterleave /\ [][NextInterleave]_vars

(***************************************************************************)
(* Properties of reciprocal_rank_fusion (specification SpecFusion).        *)
(***************************************************************************)
Fused == pc = "reciprocal_rank_fusion"

IdsOf(list) == {list[i].chunk_id : i \in DOMAIN list}

\* the entry of chunk c in a list that holds it
EntryOf(list, c) == list[CHOOSE i \in DOMAIN list : list[i].chunk_id = c]

InBoth(c) == c \in IdsOf(vector_results) /\ c \in IdsOf(keyword_results)

\* 1 / (k + rank) summed over the input lists that hold c, as a fraction <<num, den>>
FractionSum(f, g) == <<f[1] * g[2] + g[1] * f[2], f[2] * g[2]>>
ListTerm(list, c) ==
    IF c \in IdsOf(list) THEN <<1, k_rrf + EntryOf(list, c).rank>> ELSE <<0, 1>>
ClaimedScore(c) == FractionSum(ListTerm(vector_results, c), ListTerm(keyword_results, c))
FractionGE(f, g) == f[1] * g[2] >= g[1] * f[2]

\* C1: the fused list holds every chunk_id of the two input lists exactly
\* once and no other chunk_id, and its ranks are 1..len(output) in list order.
C1_FusionCompleteContiguous ==
    Fused =>
        /\ IdsOf(hybrid_results) = IdsOf(vector_results) \cup IdsOf(keyword_results)
        /\ \A i, j \in DOMAIN hybrid_results :
               i # j => hybrid_results[i].chunk_id # hybrid_results[j].chunk_id
        /\ \A i \in DOMAIN hybrid_results : hybrid_results[i].rank = i

\* C1 witness: overlapping lists, with a chunk only in each of them, were fused.
C1_Witness ==
    /\ Fused
    /\ \E c \in ChunkIds : InBoth(c)
    /\ IdsOf(vector_results) \ IdsOf(keyword_results) # {}
    /\ IdsOf(keyword_results) \ IdsOf(vector_results) # {}
    /\ Len(hybrid_results) = 3

\* C2: the fused list is in non-increasing order of the fused score, the sum
\* over the input lists holding the chunk of 1 / (k + rank), which is the
\* rrf_score of its entry; dense [X, Y] and keyword [Y, Z] with k = 60 fuse
\* to Y, X, Z.
C2_FusionOrderedByScore ==
    Fused =>
        /\ \A i \in DOMAIN hybrid_results :
               LET f == ClaimedScore(hybrid_results[i].chunk_id)
               IN  hybrid_results[i].rrf_score * f[2] = f[1] * Denom(k_rrf)
        /\ \A i, j \in DOMAIN hybrid_results :
               i < j => FractionGE(ClaimedScore(hybrid_results[i].chunk_id),
                                   ClaimedScore(hybrid_results[j].chunk_id))
        /\ ( /\ k_rrf = K_RRF
             /\ [i \in DOMAIN vector_results |-> vector_results[i].chunk_id] = <<1, 2>>
             /\ [i \in DOMAIN keyword_results |-> keyword_results[i].chunk_id] = <<2, 3>> )
           => [i \in DOMAIN hybrid_results |-> hybrid_results[i].chunk_id] = <<2, 1, 3>>

\* C2 witness: the scenario dense [X, Y], keyword [Y, Z], k = 60 was fused.
C2_Witness ==
    /\ Fused
    /\ k_rrf = K_RRF
    /\ [i \in DOMAIN vector_results |-> vector_results[i].chunk_id] = <<1, 2>>
    /\ [i \in DOMAIN keyword_results |-> keyword_results[i].chunk_id] = <<2, 3>>
    /\ Len(hybrid_results) = 3

\* the fused entry of chunk c
FusedOf(c) == EntryOf(hybrid_results, c)

\* d is in list only, at a rank equal to or worse than c's rank in list
OnlyInAtOrBelow(list, other, c, d) ==
    /\ d \in IdsOf(list)
    /\ d \notin IdsOf(other)
    /\ EntryOf(list, d).rank >= EntryOf(list, c).rank

\* C3: a chunk c of both lists has a fused score >= that of any chunk d of
\* one list only whose rank in that list is equal to or worse than c's there.
C3_FusionMonotone ==
    Fused =>
        \A c, d \in ChunkIds :
            ( /\ InBoth(c)
              /\ \/ OnlyInAtOrBelow(vector_results, keyword_results, c, d)
                 \/ OnlyInAtOrBelow(keyword_results, vector_results, c, d) )
            => FusedOf(c).rrf_score >= FusedOf(d).rrf_score

\* C3 witness: c is first in the vector list and last in the keyword list, and
\* d, second in the vector list, is in no other list.
C3_Witness ==
    /\ Fused
    /\ \E c, d \in ChunkIds :
        /\ InBoth(c)
        /\ EntryOf(vector_results, c).rank = 1
        /\ EntryOf(keyword_results, c).rank = 3
        /\ OnlyInAtOrBelow(vector_results, keyword_results, c, d)
        /\ EntryOf(vector_results, d).rank = 2

\* the place of chunk c in order of first appearance: the chunks of the
\* vector list in its order, then the other chunks of the keyword list in its
FirstAppearance(c) ==
    IF c \in IdsOf(vector_results) THEN EntryOf(vector_results, c).rank
    ELSE Len(vector_results) + EntryOf(keyword_results, c).rank

\* C26: fusion order is deterministic under ties: chunks of equal fused score
\* are listed in order of first appearance, the chunks of the vector list in
\* vector order before the keyword-only chunks in keyword order (a
\* vector-only chunk at rank r before a keyword-only chunk at rank r); two
\* calls with equal inputs return equal outputs; the input lists and their
\* records are left as they were.
C26_FusionTiesInOrder ==
    /\ pc # "ready" =>
           /\ \A i, j \in DOMAIN hybrid_results :
                  ( /\ i < j
                    /\ hybrid_results[i].rrf_score = hybrid_results[j].rrf_score )
                  => FirstAppearance(hybrid_results[i].chunk_id)
                         < FirstAppearance(hybrid_results[j].chunk_id)
           /\ \A c, d \in ChunkIds, r \in 1..MaxLen :
                  ( /\ c \in IdsOf(vector_results) \ IdsOf(keyword_results)
                    /\ d \in IdsOf(keyword_results) \ IdsOf(vector_results)
                    /\ EntryOf(vector_results, c).rank = r
                    /\ EntryOf(keyword_results, d).rank = r )
                  => FusedOf(c).rank < FusedOf(d).rank
           /\ \A i \in DOMAIN vector_results :
                  vector_results[i] = InputEntry("vector", vector_results[i].chunk_id, i)
           /\ \A i \in DOMAIN keyword_results :
                  keyword_results[i] = InputEntry("keyword", keyword_results[i].chunk_id, i)
    /\ pc = "reciprocal_rank_fusion again" => results = hybrid_results

\* C26 witness: a vector-only chunk and a keyword-only chunk, both second in
\* their lists, were fused twice, and the vector-only one comes first.
C26_Witness ==
    /\ pc = "reciprocal_rank_fusion again"
    /\ \E c, d \in ChunkIds :
          /\ c \in IdsOf(vector_results) \ IdsOf(keyword_results)
          /\ d \in IdsOf(keyword_results) \ IdsOf(vector_results)
          /\ EntryOf(vector_results, c).rank = 2
          /\ EntryOf(keyword_results, d).rank = 2
          /\ FusedOf(c).rrf_score = FusedOf(d).rrf_score
          /\ FusedOf(d).rank = FusedOf(c).rank + 1
    /\ results = hybrid_results

\* the entry a fused result of chunk c must have been copied from
SourceEntry(c) ==
    IF c \in IdsOf(vector_results) THEN EntryOf(vector_results, c)
    ELSE EntryOf(keyword_results, c)

\* C4: the fused entry of a chunk of both lists has the content, metadata and
\* score of the vector entry, a chunk of the keyword list only those of its
\* keyword entry; the fusion sets rank, rrf_score and search_type "hybrid" only.
C4_FusionPayloadFromVector ==
    Fused =>
        \A i \in DOMAIN hybrid_results :
            LET h == hybrid_results[i]
                e == SourceEntry(h.chunk_id)
            IN  /\ h.content = e.content
                /\ h.metadata = e.metadata
                /\ h.score = e.score
                /\ h.chunk_id = e.chunk_id
                /\ h.search_type = "hybrid"
                /\ DOMAIN h = DOMAIN e \cup {"rrf_score"}

\* C4 witness: a chunk of both lists and a chunk of the keyword list only were fused.
C4_Witness ==
    /\ Fused
    /\ \E c \in ChunkIds : InBoth(c)
    /\ \E c \in ChunkIds : c \in IdsOf(keyword_results) /\ c \notin IdsOf(vector_results)

(***************************************************************************)
(* Properties of filter_by_doc_name (specification SpecFilter).            *)
(***************************************************************************)
\* the call filter_by_doc_name(results, query) has just returned filtered_results
FilterReturned == pc = "filter_by_doc_name"

\* the rules as the claims state them: the keywords in priority order, each
\* the pattern looked for in the query and in doc_name
PriorityRules ==
    << {"sihaenggyuchik"}, {"sihaengnyeong"}, {"AURI", "haeseongnye"},
       {"geonseolsaneopgibonbeop"}, {"geonseolgisul"}, {"saneobanjeon"}, {"gukto"} >>

RulesFound(q) == {i \in DOMAIN PriorityRules : Search(PriorityRules[i], q)}

\* the rule the query selects: target and exclusion (none: the empty set)
SelectedRule(q) ==
    LET found == RulesFound(q)
    IN  IF found = {}
        THEN [target |-> {"geonchukbeop"}, exclusion |-> {"sihaengnyeong", "sihaenggyuchik"}]
        ELSE [target |-> PriorityRules[CHOOSE i \in found : \A j \in found : i <= j],
              exclusion |-> {}]

\* a result satisfies a rule
SatisfiesRule(r, rule) ==
    /\ Search(rule.target, DocName(r))
    /\ ~ Search(rule.exclusion, DocName(r))

NoneSatisfies ==
    LET rule == SelectedRule(query)
    IN  \A i \in DOMAIN results : ~ SatisfiesRule(results[i], rule)

\* C5: fail-open: when no result satisfies the rule the query selects, the
\* filter returns its input list, unchanged and in the same order.
C5_FilterFailOpen ==
    (FilterReturned /\ NoneSatisfies) => filtered_results = results

\* C5 witness: query "sihaengnyeong" over two results of the base act only.
C5_Witness ==
    /\ FilterReturned
    /\ query = <<"sihaengnyeong">>
    /\ Len(results) = 2
    /\ \A i \in DOMAIN results : DocName(results[i]) = <<"geonchukbeop">>
    /\ filtered_results = results

\* C6: idempotence: filtering the returned list again, with the same query,
\* returns it.
C6_FilterIdempotent ==
    pc = "filter_by_doc_name again" => refiltered_results = filtered_results

\* C6 witness: the first application narrowed a list of two results to one.
C6_Witness ==
    /\ pc = "filter_by_doc_name again"
    /\ Len(results) = 2
    /\ Len(filtered_results) = 1
    /\ refiltered_results = filtered_results

\* C6 witness of the other case: the first application fell back to its input.
C6_WitnessFallback ==
    /\ pc = "filter_by_doc_name again"
    /\ NoneSatisfies
    /\ Len(results) = 2
    /\ filtered_results = results

\* C7: the target is that of the first rule, in priority order, found in the
\* query, or the base act without its decree and regulation when none is;
\* whenever some result satisfies it, the output is the results that do, in
\* input order.
C7_FilterFirstRule ==
    FilterReturned =>
        LET rule == SelectedRule(query)
            satisfying == SelectSeq(results, LAMBDA r : SatisfiesRule(r, rule))
        IN  satisfying # <<>> => filtered_results = satisfying

\* C7 witness: the query names the decree and then the regulation, the results
\* are of the decree and of the regulation, and the regulation alone is kept.
C7_Witness ==
    /\ FilterReturned
    /\ query = <<"sihaengnyeong", "sihaenggyuchik">>
    /\ Len(results) = 2
    /\ DocName(results[1]) = <<"geonchukbeop", "sihaengnyeong">>
    /\ DocName(results[2]) = <<"geonchukbeop", "sihaenggyuchik">>
    /\ filtered_results = <<results[2]>>

\* C7 witness of the default rule: no keyword in the query, the decree is dropped.
C7_WitnessDefault ==
    /\ FilterReturned
    /\ query = <<"geonpyeyul">>
    /\ Len(results) = 2
    /\ DocName(results[1]) = <<"geonchukbeop", "sihaengnyeong">>
    /\ DocName(results[2]) = <<"geonchukbeop">>
    /\ filtered_results = <<results[2]>>

(***************************************************************************)
(* Properties of keyword_search (specification SpecKeyword).               *)
(***************************************************************************)
KeywordReturned == pc = "keyword_search" /\ error = "none"

\* the corpus index of a returned result (chunk ids number the corpus)
CorpusIndex(r) == CHOOSE i \in DOMAIN metadata : metadata[i].chunk_id = r.chunk_id

\* C8: no result keyword_search returns has a score <= 0 (its score is the
\* lexical score of its chunk): chunks of zero or negative score are left out.
C8_KeywordScoresPositive ==
    KeywordReturned =>
        \A i \in DOMAIN keyword_results :
            /\ keyword_results[i].score > 0
            /\ keyword_results[i].score = scores[CorpusIndex(keyword_results[i])]

\* C8 witness: a chunk of score zero and a chunk of negative score were left
\* out although top_k was not reached.
C8_Witness ==
    /\ KeywordReturned
    /\ \E i \in DOMAIN scores : scores[i] = 0
    /\ \E i \in DOMAIN scores : scores[i] < 0
    /\ Len(keyword_results) = 1
    /\ top_k > 1

\* C9: for every top_k >= 0, keyword_search returns at most top_k results, in
\* non-increasing order of score, with ranks 1..len(output) and search_type
\* "keyword".
C9_KeywordAtMostTopK ==
    KeywordReturned =>
        /\ Len(keyword_results) <= top_k
        /\ \A i, j \in DOMAIN keyword_results :
               i < j => keyword_results[i].score >= keyword_results[j].score
        /\ \A i \in DOMAIN keyword_results :
               /\ keyword_results[i].rank = i
               /\ keyword_results[i].search_type = "keyword"

\* C9 for top_k >= 1 (what the code does keep of it)
C9_KeywordAtMostPositiveTopK ==
    (KeywordReturned /\ top_k >= 1) =>
        /\ Len(keyword_results) <= top_k
        /\ \A i, j \in DOMAIN keyword_results :
               i < j => keyword_results[i].score >= keyword_results[j].score
        /\ \A i \in DOMAIN keyword_results :
               /\ keyword_results[i].rank = i
               /\ keyword_results[i].search_type = "keyword"

\* top_k results were returned, in order, of more chunks of positive score
C9_WitnessPositiveTopK ==
    /\ KeywordReturned
    /\ top_k = 2
    /\ Len(keyword_results) = 2
    /\ keyword_results[1].score > keyword_results[2].score
    /\ \A i \in DOMAIN scores : scores[i] > 0
    /\ Len(scores) = 3

(***************************************************************************)
(* Properties of rerank (specification SpecRerank).                        *)
(***************************************************************************)
Reranked == pc = "rerank"

\* C10: rerank returns exactly min(len(C), top_k) results, which are the
\* candidates of highest rerank_score, in non-increasing order of
\* rerank_score, with ranks 1..len(output).
C10_RerankTopK ==
    Reranked =>
        /\ Len(final_results) = Min(Len(results), top_k)
        /\ \A i, j \in DOMAIN final_results :
               i < j => final_results[i].rerank_score >= final_results[j].rerank_score
        /\ \A i \in DOMAIN final_results : final_results[i].rank = i
        /\ \A i \in DOMAIN final_results :
               \E c \in DOMAIN results :
                   /\ final_results[i] = results[c]
                   /\ final_results[i].rerank_score = scores[c]
        /\ \A c \in DOMAIN results :
               (\A i \in DOMAIN final_results : final_results[i] # results[c])
               => \A i \in DOMAIN final_results :
                      final_results[i].rerank_score >= scores[c]

\* C10 witness: three candidates of different scores, not given in score
\* order, were cut to the two of highest score.
C10_Witness ==
    /\ Reranked
    /\ Len(results) = 3
    /\ top_k = 2
    /\ Len(final_results) = 2
    /\ scores[1] < scores[2]
    /\ scores[2] < scores[3]

(***************************************************************************)
(* Properties of hybrid_search (specification SpecHybrid).                 *)
(***************************************************************************)
\* the call has ended: it returned a list or it raised
HybridEnded == pc \in {"returned", "raised"}

HybridReturned == pc = "returned"

\* idx is an index of the corpus
InRange(idx) == 0 <= idx /\ idx < Len(metadata)

\* the retrieval stages found no candidate: the dense index returned no index
\* of the corpus, and the keyword stage, if it ran, no chunk
NoCandidate ==
    /\ \A i \in DOMAIN indices : ~ InRange(indices[i])
    /\ keyword_results = <<>>

\* C11: an empty result is never an error: hybrid_search whose retrieval
\* stages find no candidate returns the empty list, does not raise and does
\* not call the relevance scorer (rerank returns an empty list as it is).
C11_EmptyNeverAnError ==
    (HybridEnded /\ NoCandidate) =>
        /\ pc = "returned"
        /\ error = "none"
        /\ final_results = <<>>
        /\ predict_calls = 0

\* vector_search has ended
VectorSearched == pc # "ready"

\* how many entries of list s satisfy P
Count(s, P(_)) == Cardinality({i \in DOMAIN s : P(s[i])})

\* C14: vector_search raises no error for any list of neighbour indices and
\* maps only in-range indices to results: an index outside 0..len(corpus)-1
\* (too large, or the negative "no neighbour") gives no result, so each chunk
\* is in the results at most as often as its index was returned.
C14_OnlyInRangeIndices ==
    VectorSearched =>
        /\ error = "none"
        /\ \A c \in DOMAIN metadata :
               Count(vector_results, LAMBDA r : r.chunk_id = metadata[c].chunk_id)
                   <= Count(indices, LAMBDA idx : idx = c - 1)

\* the neighbour index idx is of a chunk of the document family of the rule
InFamily(idx, rule) == InRange(idx) /\ SatisfiesRule(metadata[idx + 1], rule)

\* C15: the domain filter works on the over-fetched candidates: when at least
\* top_k of the top_k * 10 neighbours the dense index returned are chunks of
\* the document family the query selects, hybrid_search without rerank and
\* without keyword fusion returns top_k results, all of that family.
C15_FilterSeesOverFetch ==
    LET rule == SelectedRule(query)
    IN  ( /\ HybridReturned
          /\ ~ use_rerank
          /\ ~ use_bm25
          /\ Len(indices) = top_k * OVER_FETCH
          /\ Count(indices, LAMBDA idx : InFamily(idx, rule)) >= top_k )
        => /\ Len(final_results) = top_k
           /\ \A i \in DOMAIN final_results : SatisfiesRule(final_results[i], rule)

\* the candidates the scorer was given, as they are after rerank has set
\* rank and rerank_score in them: the first entries of filtered_results
Given == SubSeq(filtered_results, 1, Len(pairs))

\* C16: with use_rerank the scorer is given the first min(10, len(filtered))
\* filtered candidates, never more than 10, and the result is those
\* candidates in non-increasing order of their new score, cut to top_k;
\* without use_rerank the scorer is not called and the result is the first
\* top_k filtered candidates in their order.
C16_RerankCap ==
    HybridReturned =>
        IF use_rerank
        THEN /\ Len(pairs) = Min(10, Len(filtered_results))
             /\ Len(pairs) <= 10
             /\ predict_calls = (IF filtered_results = <<>> THEN 0 ELSE 1)
             /\ \A i \in DOMAIN pairs :
                    /\ pairs[i].chunk_id = filtered_results[i].chunk_id
                    /\ pairs[i].content = filtered_results[i].content
                    /\ filtered_results[i].rerank_score = scores[i]
             /\ Len(final_results) = Min(top_k, Len(pairs))
             /\ Len(final_results) <= Min(10, top_k)
             /\ \A i \in DOMAIN Given :
                    /\ Given[i].rank \in 1..Len(Given)
                    /\ Given[i].rank <= top_k => final_results[Given[i].rank] = Given[i]
             /\ \A i, j \in DOMAIN Given :
                    /\ i # j => Given[i].rank # Given[j].rank
                    /\ Given[i].rank < Given[j].rank =>
                           Given[i].rerank_score >= Given[j].rerank_score
        ELSE /\ predict_calls = 0
             /\ pairs = <<>>
             /\ Len(final_results) = Min(top_k, Len(filtered_results))
             /\ \A i \in DOMAIN final_results : final_results[i] = filtered_results[i]

\* C16 witness: more than 10 candidates passed the filter, the scorer was
\* given 10 of them and a top_k above 10 was cut to 10 results.
C16_Witness ==
    /\ HybridReturned
    /\ use_rerank
    /\ Len(filtered_results) > 10
    /\ top_k > 10
    /\ Len(pairs) = 10
    /\ Len(final_results) = 10
    /\ final_results[1].chunk_id # filtered_results[1].chunk_id

\* C16 witness without rerank: the filter left more than top_k candidates.
C16_WitnessTruncate ==
    /\ HybridReturned
    /\ ~ use_rerank
    /\ Len(filtered_results) > top_k
    /\ Len(final_results) = top_k

\* C17: every list hybrid_search returns has 1-based dense ranks: the rank
\* fields of the results are 1..len(output) in list order, whatever
\* use_rerank and use_bm25 are and whatever the filter kept.
C17_HybridRanksDense ==
    HybridReturned => \A i \in DOMAIN final_results : final_results[i].rank = i

\* what hybrid_search gives for the engine, the query, top_k, use_rerank and
\* use_bm25 of the state and the answers the dense index, the lexical stage
\* and the scorer gave: a function of these alone, not of the progress sink
ResultWithoutSink ==
    LET v == vector_search(metadata, indices, distances, top_k)
        fused == IF use_bm25
                 THEN reciprocal_rank_fusion(v.results, keyword_results, k_rrf)
                 ELSE v.results
        filtered == filter_by_doc_name(fused, query)
    IN  IF v.error # "none" THEN [error |-> v.error, out |-> <<>>]
        ELSE [error |-> "none",
              out |-> IF use_rerank
                      THEN rerank(query, Take(filtered, 10), top_k, scores).out
                      ELSE Take(filtered, top_k)]

\* C18: the progress sink does not influence retrieval: for the same engine,
\* query, top_k, use_rerank, use_bm25 and answers of embedding and scorer,
\* hybrid_search ends the same way, with the same result list, whether the
\* callback is absent or a sink; and the sink is called only when supplied.
C18_SinkDoesNotInfluence ==
    /\ HybridEnded =>
           /\ error = ResultWithoutSink.error
           /\ pc = "returned" => final_results = ResultWithoutSink.out
    /\ progress_callback = "None" => events = <<>>

\* C18 witness: a call with keyword fusion and rerank has returned results
\* to a caller that supplied a sink, which got a message from every stage.
C18_Witness ==
    /\ HybridReturned
    /\ progress_callback = "sink"
    /\ use_bm25
    /\ use_rerank
    /\ Len(events) = 8
    /\ Len(final_results) > 1

\* C18 witness without a sink: the same kind of call has returned results and
\* no message was sent.
C18_WitnessAbsent ==
    /\ HybridReturned
    /\ progress_callback = "None"
    /\ use_bm25
    /\ use_rerank
    /\ events = <<>>
    /\ Len(final_results) > 1

\* the names of the messages the sink got, in the order it got them
EventNames == [i \in DOMAIN events |-> events[i][1]]

\* the messages of a call that runs to its end, in pipeline order
PipelineEvents ==
    <<"vector_search", "vector_search done">>
    \o (IF use_bm25
        THEN <<"keyword_search", "keyword_search done", "reciprocal_rank_fusion">>
        ELSE <<>>)
    \o <<"filter_by_doc_name", "filter_by_doc_name done">>
    \o (IF use_rerank THEN <<"rerank">> ELSE <<>>)

\* the number of messages sent when the call is at a place
EventsAt(place) ==
    CASE place = "ready" -> 0
      [] place = "keyword_search" -> 2
      [] place = "reciprocal_rank_fusion" -> 4
      [] place = "filter_by_doc_name" -> IF use_bm25 THEN 5 ELSE 2
      [] place \in {"rerank", "truncate"} -> IF use_bm25 THEN 7 ELSE 4
      [] place = "returned" -> Len(PipelineEvents)

\* C25: in a hybrid_search call with a progress sink the events come in
\* pipeline order: the dense-search start first, before the index is
\* searched, then its completion; keyword start, keyword completion and
\* fusion in that order and only if use_bm25 (the lexical index is not
\* consulted otherwise); filter start and completion after them; the rerank
\* event last and only if use_rerank; a stage that fails emits no later event.
C25_EventsInPipelineOrder ==
    progress_callback = "sink" =>
        /\ pc # "raised" => EventNames = Take(PipelineEvents, EventsAt(pc))
        /\ pc = "raised" =>
               \/ EventNames = <<"vector_search">>
               \/ use_bm25 /\ EventNames = Take(PipelineEvents, 3)
        /\ ~ use_bm25 => scores = <<>> \/ pc = "returned"
        /\ ~ use_bm25 => keyword_results = <<>>

\* C25 witness: a call with keyword fusion and rerank has returned, and the
\* sink has the eight messages, the rerank one last.
C25_Witness ==
    /\ HybridReturned
    /\ progress_callback = "sink"
    /\ use_bm25
    /\ use_rerank
    /\ EventNames = <<"vector_search", "vector_search done", "keyword_search",
                      "keyword_search done", "reciprocal_rank_fusion",
                      "filter_by_doc_name", "filter_by_doc_name done", "rerank">>

\* C25 witness without fusion and rerank: the four messages of the dense
\* search and of the filter.
C25_WitnessDenseOnly ==
    /\ HybridReturned
    /\ progress_callback = "sink"
    /\ ~ use_bm25
    /\ ~ use_rerank
    /\ EventNames = <<"vector_search", "vector_search done",
                      "filter_by_doc_name", "filter_by_doc_name done">>

\* C25 witness of a failure: the dense search has raised after its start
\* message, and no other message follows.
C25_WitnessRaised ==
    /\ pc = "raised"
    /\ progress_callback = "sink"
    /\ EventNames = <<"vector_search">>

(***************************************************************************)
(* Properties of get_search_strategy and of its callers (specification     *)
(* SpecStrategy).                                                          *)
(***************************************************************************)
StrategyReturned == pc \in {"strategy", "strategy again"}

\* C12: get_search_strategy never fails: for a label outside the six known
\* ones it returns the configuration of the default label (hybrid, top_k 10),
\* for a known label that label's configuration, whose search_method is
\* vector, keyword or hybrid and whose top_k is a positive integer; a second
\* call for the same label returns the same.
C12_StrategyDefault ==
    StrategyReturned =>
        /\ strategy.search_method \in {"vector", "keyword", "hybrid"}
        /\ strategy.top_k \in Nat \ {0}
        /\ classification \notin ValidTypes =>
               strategy = [search_method |-> "hybrid", top_k |-> 10]
        /\ classification \in ValidTypes => strategy = strategies[classification]
        /\ strategies["ilban_jeongbo_geomsaek"] = [search_method |-> "hybrid", top_k |-> 10]

\* C12 witness: the second call for the casual conversation label, which is
\* none of the six, has returned.
C12_Witness ==
    /\ pc = "strategy again"
    /\ classification = "ilsang_daehwa"
    /\ strategy = [search_method |-> "hybrid", top_k |-> 10]

\* classify has returned to its caller
Classified == flow \in {"generate_answer", "test_search", "app"} /\ pc # "ready"

\* the closed set of labels
SixLabels ==
    {"beopjomun_johoe", "ilban_jeongbo_geomsaek", "sanghwangbyeol_consulting",
     "jeolcha_annae", "munseo_saengseong", "bigyo_bunseok"}

C24_WitnessUnknownLabel ==
    /\ flow = "generate_answer"
    /\ pc = "answered"
    /\ response = [kind |-> "object", query_type |-> "ilsang_daehwa"]
    /\ classification = "ilban_jeongbo_geomsaek"
    /\ search_call.function = "hybrid_search"

\* a caller has executed its search, or has gone past the place of it
Searched == pc = "searched"

\* the retrieval stages a call of the engine runs
StagesRun(call) ==
    CASE call.function = "hybrid_search" ->
             IF call.use_bm25 THEN {"dense", "lexical"} ELSE {"dense"}
      [] call.function = "vector_search" -> {"dense"}
      [] call.function = "keyword_search" -> {"lexical"}
      [] OTHER -> {}

\* the retrieval stages a search_method stands for
StagesOf(search_method) ==
    CASE search_method = "vector" -> {"dense"}
      [] search_method = "keyword" -> {"lexical"}
      [] search_method = "hybrid" -> {"dense", "lexical"}

\* C13: the retrieval a caller executes follows the configuration of the
\* label the query was classified as: the stages that run are those of its
\* search_method and the depth passed is its top_k, in generate_answer, in
\* test_search and in the application.
C13_SearchFollowsStrategy ==
    Searched =>
        LET config == get_search_strategy(classification)
        IN  /\ search_call.function # "none"
            /\ search_call.top_k = config.top_k
            /\ StagesRun(search_call) = StagesOf(config.search_method)

(***************************************************************************)
(* Properties of the engine's lexical index (specification SpecEngine).    *)
(***************************************************************************)
\* an engine has been constructed
Constructed == pc \in {"constructed", "keyword_search"}

\* C19: positional alignment holds for every engine, whatever constructions
\* came before it (fresh build, build and save, load of the blob at the
\* path, over any corpora): the tokenized lexical documents are as many as
\* the chunks of the corpus, and document i is the tokenization of the
\* content of chunk i.
C19_PositionalAlignment ==
    Constructed =>
        /\ Len(bm25_corpus) = Len(metadata)
        /\ \A i \in DOMAIN metadata :
               i \in DOMAIN bm25_corpus =>
                   bm25_corpus[i] = tokenize_korean(metadata[i].content)

\* C20: a lexical index loaded from a blob built over another corpus
\* (shorter, longer or reordered) never makes anything raise: construction
\* succeeds and every later keyword_search returns a list.
C20_MismatchNeverRaises ==
    Constructed => error = "none"

\* an engine was constructed, or its construction raised, with a lexical
\* index built over a corpus of zero chunks
BuiltOverEmpty == pc # "ready" /\ metadata = <<>> /\ bm25_corpus = <<>>

\* C22: building the lexical index succeeds for an empty corpus: the
\* construction of an engine over zero chunks raises no error, and every
\* keyword_search on it returns the empty list.
C22_EmptyCorpusBuilds ==
    BuiltOverEmpty => (pc # "raised" /\ error = "none" /\ keyword_results = <<>>)

(***************************************************************************)
(* Properties of vector_search (specification SpecVector).                 *)
(***************************************************************************)
VectorReturned == pc = "vector_search" /\ error = "none"

\* the fraction f, a score 1 / (1 + distance), is defined and in (0, 1]
InUnitInterval(f) == f[2] > 0 /\ 0 < f[1] /\ f[1] <= f[2]

\* the results have the ranks 1..n, scores that are defined and in (0, 1],
\* a score that never grows with the distance, and so non-increasing scores
ScoresDecreaseWithDistance ==
    /\ \A i \in DOMAIN vector_results :
           /\ vector_results[i].rank = i
           /\ InUnitInterval(vector_results[i].score)
    /\ \A i, j \in DOMAIN vector_results :
           /\ vector_results[i].score[2] >= vector_results[j].score[2] =>
                  FractionGE(vector_results[j].score, vector_results[i].score)
           /\ i < j => FractionGE(vector_results[i].score, vector_results[j].score)

\* C23: for every distance the dense index returns, L2 or inner product,
\* distance 0 among them, the score 1 / (1 + distance) is defined and in
\* (0, 1], a larger distance never gives a larger score, and the results,
\* in the index's nearest-first order with ranks 1..n, have non-increasing
\* scores.
C23_ScoreInUnitInterval == VectorReturned => ScoresDecreaseWithDistance

\* the same for the distances of an L2 index, none of which is negative
C23_ScoreOfL2Distances ==
    (VectorReturned /\ \A i \in DOMAIN distances : distances[i] >= 0)
        => ScoresDecreaseWithDistance

(***************************************************************************)
(* Properties of interleaved hybrid_search calls (specification            *)
(* SpecInterleave).                                                        *)
(***************************************************************************)
\* what hybrid_search returns for arguments a when no other call runs
Alone(a) ==
    LET found == faiss_search(faiss_index, embed_text(a.query), a.top_k * OVER_FETCH)
        v == vector_search(metadata, found.indices, found.distances, a.top_k)
        sc == get_scores(bm25_corpus, tokenize_korean(a.query))
        kw == keyword_search(metadata, sc, argsort_reversed(sc), a.top_k)
        fused == IF a.use_bm25
                 THEN reciprocal_rank_fusion(v.results, kw.results, K_RRF)
                 ELSE v.results
        filtered == filter_by_doc_name(fused, a.query)
        candidates == Take(filtered, 10)
    IN  IF v.error # "none" THEN [error |-> v.error, out |-> <<>>]
        ELSE IF a.use_bm25 /\ kw.error # "none" THEN [error |-> kw.error, out |-> <<>>]
        ELSE [error |-> "none",
              out |-> IF a.use_rerank
                      THEN rerank(a.query, candidates, a.top_k,
                                  predict(a.query, candidates)).out
                      ELSE Take(filtered, a.top_k)]

\* every call that has ended has ended as it does alone
EndedAsAlone ==
    \A c \in CallIds :
        calls[c].pc \in {"returned", "raised"} =>
            /\ calls[c].error = Alone(calls[c].args).error
            /\ calls[c].returned = Alone(calls[c].args).out

\* C21: queries are read-only and safe to interleave: no step of a
\* hybrid_search call (its vector_search, keyword_search,
\* reciprocal_rank_fusion, filter_by_doc_name or rerank) writes to the
\* engine's corpus records, dense index or lexical index, and each of two
\* calls on one engine, interleaved at any stage boundaries, returns exactly
\* the list it returns when run alone, the embedding and the scorer being
\* deterministic.
C21_ReadOnlyInterleaving ==
    /\ [][ /\ metadata' = metadata
           /\ faiss_index' = faiss_index
           /\ bm25_corpus' = bm25_corpus ]_vars
    /\ []EndedAsAlone

\* C21 witness: two calls with different arguments have returned different
\* lists, each having taken a step while the other was running.
C21_Witness ==
    /\ calls # <<>>
    /\ calls["first"].pc = "returned"
    /\ calls["second"].pc = "returned"
    /\ calls["first"].interleaved
    /\ calls["second"].interleaved
    /\ calls["first"].args.query # calls["second"].args.query
    /\ calls["first"].args.use_bm25
    /\ calls["first"].args.use_rerank
    /\ calls["first"].returned # <<>>
    /\ calls["second"].returned # <<>>
    /\ calls["first"].returned # calls["second"].returned

====
